---- MODULE Spec2Model ----
(***************************************************************************)
(* A model of the multipart uploader of kelindar/s3 (src/uploader.go), of  *)
(* the S3 endpoint it talks to (src/mock/server.go) and of the callers     *)
(* that drive it: goroutines calling Start / Upload / CopyFrom / Close /   *)
(* Abort, the background copy goroutines, and Bucket.WriteFrom.            *)
(***************************************************************************)
EXTENDS Integers, Sequences, FiniteSets, Bags, TLC

\* ------------------------------------------------------------------ bounds
\* goroutines calling the uploader concurrently
NumCallers == 2
\* calls made on one uploader by a single goroutine, and by several
MaxCalls == 4
MaxConcCalls == 3
\* part numbers the callers choose from
MaxPartNum == 2
\* background copies running at a time
MaxCopies == 1
\* full parts of the sources WriteFrom is given, and the bytes of their tails
MaxFullParts == 2
TailLen == 1000
\* the link speeds an uploader is configured with: multiples of MbpsStep up
\* to MaxMbpsSteps of them; and the most full parts of a source it splits
MbpsStep == 400
MaxMbpsSteps == 110
MaxSplitParts == 100

\* --------------------------------------------------------- program constants
MinPartSize == 5 * 1024 * 1024
MaxParts == 10000
\* the connections idealParallel allows when Mbps is not set
MaxParallel == 40
\* attempts one flakyDo call may make (the retry wrapper of section 4.3)
MaxAttempts == 3
\* size of the object CopyFrom copies from (Reader.Size)
SourceSize == 2 * MinPartSize

Callers == 1 .. NumCallers
PartNums == 1 .. MaxPartNum
Slots == 1 .. MaxCopies

\* a byte string is modelled by where it comes from: a tag, the offset of its
\* first byte in its origin and its length
Bytes(tag, lo, len) == [tag |-> tag, lo |-> lo, len |-> len]
Nil == Bytes("", 0, 0)
\* what Upload is called with: a part number and a body; the bodies of
\* different part numbers differ, one part number is offered two bodies, one
\* body is a byte short of MinPartSize, and one part has the number MaxParts
PartBody(num) == Bytes("p", num, MinPartSize + num)
UploadArgs == {<<num, PartBody(num)>> : num \in PartNums}
              \cup {<<1, Bytes("q", 0, MinPartSize)>>, <<1, Bytes("s", 0, MinPartSize - 1)>>,
                    <<MaxParts, PartBody(MaxParts)>>}
Finals == {Nil, Bytes("t", 0, 10)}
\* what CopyFrom is called with: a part number and (start, end)
CopyArgs == {<<num, <<0, 0>>>> : num \in PartNums}
            \cup {<<1, <<0, MinPartSize>>>>, <<1, <<-1, 0>>>>, <<1, <<0, -1>>>>,
                  <<1, <<0, SourceSize + 1>>>>, <<1, <<0, MinPartSize - 1>>>>}

\* errors and results
NoErr == [k |-> "nil", e |-> "", n |-> 0]
Err(e, n) == [k |-> "err", e |-> e, n |-> n]
Panic(e) == [k |-> "panic", e |-> e, n |-> 0]

\* the ETag the server computes for a body
generateETag(b) == <<"md5", b.tag, b.lo, b.len>>

tagpart(num, etag, size) == [Num |-> num, ETag |-> etag, size |-> size]

VARIABLES
    Bucket, Object, Mbps, nthreads, budget, ctxDone,
    size, offset, gerr,
    started, finished, id, part, finalETag,
    lock, parts, maxpart, bg, asyncerr,
    pc, loc, copies,
    uploads, nextId, object, requests, manifest,
    calls, ret,
    okparts, accepted, opFailed, copyFailed, startCalls, closeCalls, onlyUploads,
    ETag, body, pos, stored, fret, delivered,
    objects, Path, token, dirEOF, dret, pages, retry, ureq

\* ctxDone: the context given to UploadFrom is cancelled before the call
cfgvars == <<Bucket, Object, Mbps, nthreads, budget, ctxDone>>
\* the state of one UploadFrom: its size argument, the offset its workers
\* share, and the first error of its errgroup
wfvars == <<size, offset, gerr>>
\* one File: Reader.ETag, File.body and File.pos; the object the server
\* stores under the File's path; what the last call on the File returned and
\* the request it sent; the object versions whose bytes Read has returned
filevars == <<ETag, body, pos, stored, fret, delivered>>
\* the keys of the bucket; one Prefix: its Path, token and dirEOF; what the
\* last call on the Bucket or the Prefix returned and the requests it sent
dirvars == <<objects, Path, token, dirEOF, dret, pages>>
\* one call of the retry wrapper; one request URL
bucketvars == <<dirvars, retry, ureq>>
uvars == <<started, finished, id, part, finalETag, parts, maxpart, bg, asyncerr>>
svars == <<uploads, nextId, object>>
ghost == <<okparts, accepted, opFailed, copyFailed, startCalls, closeCalls, onlyUploads>>
vars == <<Bucket, Object, Mbps, nthreads, budget, ctxDone, size, offset, gerr, started, finished, id, part, finalETag, lock, parts,
          maxpart, bg, asyncerr, pc, loc, copies, uploads, nextId, object,
          requests, manifest, calls, ret, okparts, accepted, opFailed,
          copyFailed, startCalls, closeCalls, onlyUploads,
          ETag, body, pos, stored, fret, delivered,
          objects, Path, token, dirEOF, dret, pages, retry, ureq>>

\* ------------------------------------------------------------- helpers
Idle == [op |-> "", num |-> 0, body |-> Nil, rng |-> <<0, 0>>,
         etag |-> <<>>, rmax |-> 0, rparts |-> <<>>]
NoCopy == [pc |-> "none", num |-> 0, body |-> Nil, rng |-> <<0, 0>>,
           etag |-> <<>>, e |-> NoErr, rerr |-> NoErr, rparts |-> <<>>]

Req(m, q, n) == [m |-> m, q |-> q, n |-> n]
\* a call's return: the operation, its result, and the uploader's started and
\* finished flags when it was called
Ret(op, res, st, fin) == [op |-> op, n |-> ret.n + 1, res |-> res, st |-> st, fin |-> fin]

Max(S) == CHOOSE x \in S : \A y \in S : y <= x
Range(s) == {s[i] : i \in 1 .. Len(s)}
BagOfSeq(s) == [x \in Range(s) |-> Cardinality({i \in 1 .. Len(s) : s[i] = x})]
IsAscending(s) == \A i \in 1 .. Len(s) - 1 : s[i].Num <= s[i + 1].Num
IsStrictlyAscending(s) == \A i \in 1 .. Len(s) - 1 : s[i].Num < s[i + 1].Num

\* the holder ids of the uploader's mutex: 0 is free, a caller holds it under
\* its own number, a background copy under NumCallers + its slot
CopyHolder(c) == NumCallers + c

\* sync.Mutex.Lock: blocks until the mutex is free
LockFree == lock = 0

\* a Wait that returns at once
WaitDone_NoWait == TRUE

\* sync.WaitGroup.Wait: blocks until the counter is zero
WaitDone == bg = 0

\* a sort that leaves the slice as it is
SortSlice_Unsorted(s) == {s}

\* sort.Slice(u.parts, Num ascending): some permutation of s in ascending
\* order of Num (the sort is not stable)
Permutation(s, f) == [i \in 1 .. Len(s) |-> s[f[i]]]
Bijections(n) == {f \in [1 .. n -> 1 .. n] : \A i, j \in 1 .. n : f[i] = f[j] => i = j}
SortSlice(s) == {q \in {Permutation(s, f) : f \in Bijections(Len(s))} : IsAscending(q)}

\* ------------------------------------------------------------- the server
\* handleInitiateMultipartUpload: a new upload with no part
ServerInitiate(ups, uid) == (uid :> <<>>) @@ ups

\* handleUploadPart: the upload must exist and the part number be >= 1
ServerAcceptsPart(ups, uid, num) == num >= 1 /\ uid \in DOMAIN ups
ServerPutPart(ups, uid, num, b) ==
    [ups EXCEPT ![uid] = (num :> b) @@ ups[uid]]

\* handleCompleteMultipartUpload: the part numbers of the request, sorted,
\* must all be stored; the object is their contents in that order
RequestNums(m) == [i \in 1 .. Len(m) |-> m[i].Num]
SortedNums(m) ==
    LET RECURSIVE Ins(_, _)
        Ins(x, s) == IF s = <<>> THEN <<x>>
                     ELSE IF x <= Head(s) THEN <<x>> \o s
                     ELSE <<Head(s)>> \o Ins(x, Tail(s))
        RECURSIVE Sort(_)
        Sort(s) == IF s = <<>> THEN <<>> ELSE Ins(Head(s), Sort(Tail(s)))
    IN Sort(RequestNums(m))
ServerCanComplete(ups, uid, m) ==
    /\ uid \in DOMAIN ups
    /\ \A i \in 1 .. Len(m) : m[i].Num \in DOMAIN ups[uid]
ServerAssemble(ups, uid, m) ==
    LET nums == SortedNums(m) IN [i \in 1 .. Len(nums) |-> ups[uid][nums[i]]]
ServerDrop(ups, uid) == [u \in DOMAIN ups \ {uid} |-> ups[u]]

\* a File's fields before any call: no ETag, File.body nil, File.pos zero
NoETag == <<>>
NoBody == [open |-> FALSE, rest |-> <<>>, broken |-> FALSE]
NoGet == [sent |-> FALSE]
NoCall == [op |-> "", n |-> 0, err |-> "nil", data |-> <<>>, from |-> 0,
           open |-> FALSE, arg |-> <<>>, get |-> NoGet]
NoFile ==
    /\ ETag = NoETag /\ body = NoBody /\ pos = 0
    /\ stored = [etag |-> NoETag, content |-> <<>>]
    /\ fret = NoCall /\ delivered = {}

\* no Bucket, no Prefix, no retried request, no URL
NoDirCall == [op |-> "", arg |-> <<>>, kind |-> "", entries |-> <<>>,
              err |-> "nil", sent |-> <<>>, eof |-> FALSE]
\* the ReadDir calls made on the Prefix held since it was opened: the count
\* of the first call, whether every call had that count, and the entries the
\* calls returned, one after the other
NoPages == [n |-> 0, same |-> TRUE, d |-> <<>>]
NoRetry == [method |-> "", tried |-> <<>>, done |-> TRUE, result |-> ""]
NoBucket ==
    /\ objects = {} /\ Path = <<>> /\ token = 0 /\ dirEOF = FALSE
    /\ dret = NoDirCall /\ pages = NoPages
    /\ retry = NoRetry
    /\ ureq = [built |-> TRUE]

\* an uploader that nothing has been called on
NoUploader ==
    /\ Bucket = "the-bucket" /\ Object = "the-object"
    /\ Mbps = 0 /\ nthreads = 0 /\ budget = 0 /\ ctxDone = FALSE
    /\ size = 0 /\ offset = 0 /\ gerr = NoErr
    /\ started = FALSE /\ finished = FALSE /\ id = 0 /\ part = 0
    /\ finalETag = <<>>
    /\ lock = 0 /\ parts = <<>> /\ maxpart = 0 /\ bg = 0 /\ asyncerr = NoErr
    /\ pc = <<>> /\ loc = <<>>
    /\ copies = [c \in Slots |-> NoCopy]
    /\ uploads = <<>> /\ nextId = 1
    /\ object = [exists |-> FALSE, content |-> <<>>]
    /\ requests = EmptyBag /\ manifest = <<>>
    /\ calls = 0
    /\ ret = [op |-> "", n |-> 0, res |-> NoErr, st |-> FALSE, fin |-> FALSE]
    /\ okparts = EmptyBag /\ accepted = <<>> /\ opFailed = FALSE
    /\ copyFailed = FALSE /\ startCalls = 0 /\ closeCalls = 0
    /\ onlyUploads = TRUE

\* ------------------------------------------------------------- Init
Init ==
    /\ Bucket \in {"", "the-bucket"}
    /\ Object \in {"", "the-object"}
    /\ nthreads \in 1 .. NumCallers
    /\ budget = IF nthreads = 1 THEN MaxCalls ELSE MaxConcCalls
    /\ Mbps = 0 /\ ctxDone = FALSE
    /\ size = 0 /\ offset = 0 /\ gerr = NoErr
    /\ started = FALSE /\ finished = FALSE /\ id = 0 /\ part = 0
    /\ finalETag = <<>>
    /\ lock = 0 /\ parts = <<>> /\ maxpart = 0 /\ bg = 0 /\ asyncerr = NoErr
    /\ pc = [t \in Callers |-> "idle"]
    /\ loc = [t \in Callers |-> Idle]
    /\ copies = [c \in Slots |-> NoCopy]
    /\ uploads = <<>> /\ nextId = 1
    /\ object = [exists |-> FALSE, content |-> <<>>]
    /\ requests = EmptyBag /\ manifest = <<>>
    /\ calls = 0
    /\ ret = [op |-> "", n |-> 0, res |-> NoErr, st |-> FALSE, fin |-> FALSE]
    /\ okparts = EmptyBag /\ accepted = <<>> /\ opFailed = FALSE
    /\ copyFailed = FALSE /\ startCalls = 0 /\ closeCalls = 0
    /\ onlyUploads = TRUE
    /\ NoFile
    /\ NoBucket

\* ------------------------------------------------------------- callers
\* Start, Close and Abort may not run concurrently with any other call (they
\* are made by caller 1 while no call is in progress); Upload and CopyFrom
\* may run concurrently with each other.  The callers are interchangeable:
\* a call is made by the first idle one.
Active == 1 .. nthreads
Quiet == \A t \in Active : pc[t] = "idle"
PartOpsOnly == \A t \in Active : pc[t] = "idle" \/ loc[t].op \in {"Upload", "CopyFrom"}
FirstIdle(t) == t \in Active /\ pc[t] = "idle" /\ \A s \in Active : s < t => pc[s] # "idle"

GhostNewUpload ==
    /\ okparts' = EmptyBag /\ accepted' = <<>> /\ opFailed' = FALSE
    /\ copyFailed' = FALSE /\ closeCalls' = 0 /\ onlyUploads' = TRUE

\* the responses a request can get: "ok", a 200 without the expected content,
\* a failure the retry wrapper retries ("transient": 500/502/503/504 or a
\* reset connection), and any other failure
StartOutcomes == {"ok", "transport", "status", "badxml", "bucket", "key"}
PutOutcomes == {"ok", "noetag", "transient", "fatal"}
CompleteOutcomes == {"ok", "transport", "status", "badxml", "unexpected", "errorxml"}
AbortOutcomes == {"ok", "transport", "status"}

\* a wrapper that repeats every method
Idempotent_All(m) == TRUE
\* the methods the retry wrapper repeats
Idempotent(m) == m \in {"GET", "HEAD", "PUT", "DELETE"}
\* flakyDo: the number of requests one call sends when its last response is
\* o: every attempt before the last failed transiently, and a transient
\* failure is returned only when the budget is used up; only idempotent
\* methods are repeated
flakyDo(m, o) == IF ~Idempotent(m) THEN {1}
                 ELSE IF o = "transient" THEN {MaxAttempts}
                 ELSE 1 .. MaxAttempts

\* the request log after k requests r
Sent(r, k) == requests (+) (r :> k)

\* a Start that never panics
StartPanics_Never == FALSE

\* uploader.Start: the panic of a Start that may not be made
StartPanics == started

\* uploader.Start
Start ==
    /\ Quiet /\ calls < budget
    /\ calls' = calls + 1
    /\ startCalls' = startCalls + 1
    /\ UNCHANGED <<bucketvars, filevars, cfgvars, wfvars, finished, part, finalETag, lock, parts, maxpart, bg,
                   asyncerr, pc, loc, copies, object, manifest>>
    /\ IF StartPanics
       THEN /\ ret' = Ret("Start", Panic("multiple calls to uploader.Start()"), started, finished)
            /\ UNCHANGED <<started, id, uploads, nextId, requests, okparts, accepted,
                           opFailed, copyFailed, closeCalls, onlyUploads>>
       ELSE IF Bucket = "" \/ Object = ""
       THEN /\ ret' = Ret("Start", Err("Bucket and Object must be present", 0), started, finished)
            /\ UNCHANGED <<started, id, uploads, nextId, requests, okparts, accepted,
                           opFailed, copyFailed, closeCalls, onlyUploads>>
       ELSE /\ requests' = Sent(Req("POST", "uploads", 0), 1)
            /\ \E o \in StartOutcomes :
                 /\ IF o \in {"transport", "status"}
                    THEN UNCHANGED <<uploads, nextId>>
                    ELSE /\ uploads' = ServerInitiate(uploads, nextId)
                         /\ nextId' = nextId + 1
                 /\ IF o = "ok"
                    THEN /\ started' = TRUE
                         /\ id' = nextId
                         /\ ret' = Ret("Start", NoErr, started, finished)
                         /\ GhostNewUpload
                    ELSE /\ ret' = Ret("Start", Err(o, 0), started, finished)
                         /\ UNCHANGED <<started, id, okparts, accepted, opFailed,
                                        copyFailed, closeCalls, onlyUploads>>

\* uploader.NextPart
NextPart(t) ==
    /\ FirstIdle(t) /\ calls < budget
    /\ calls' = calls + 1
    /\ part' = part + 1
    /\ ret' = Ret("NextPart", NoErr, started, finished)
    /\ UNCHANGED <<bucketvars, filevars, cfgvars, wfvars, started, finished, id, finalETag, lock, parts, maxpart,
                   bg, asyncerr, pc, loc, copies, svars, requests, manifest, ghost>>

\* an Upload that accepts a body of any length
BelowMinPartSize_Unchecked(contents) == FALSE

\* uploader.Upload: the body is shorter than a part may be
BelowMinPartSize(contents) == contents.len < MinPartSize

\* uploader.Upload: the checks before the request
UploadCall(t, num, contents) ==
    /\ FirstIdle(t) /\ PartOpsOnly /\ calls < budget
    /\ calls' = calls + 1
    /\ UNCHANGED <<bucketvars, filevars, cfgvars, wfvars, uvars, lock, copies, svars, requests, manifest,
                   okparts, accepted, copyFailed, startCalls, closeCalls>>
    /\ IF ~started
       THEN /\ ret' = Ret("Upload", Panic("UploadPart before Start()"), started, finished)
            /\ UNCHANGED <<pc, loc, opFailed, onlyUploads>>
       ELSE IF BelowMinPartSize(contents)
       THEN /\ ret' = Ret("Upload", Err("below min part size", 0), started, finished)
            /\ onlyUploads' = FALSE
            /\ UNCHANGED <<pc, loc, opFailed>>
       ELSE /\ pc' = [pc EXCEPT ![t] = "put"]
            /\ loc' = [loc EXCEPT ![t] = [Idle EXCEPT !.op = "Upload", !.num = num,
                                                     !.body = contents]]
            /\ UNCHANGED <<ret, opFailed, onlyUploads>>

\* uploader.upload: the PUT of a part (of Upload, or of the tail Close
\* uploads) through flakyDo, and what the response makes of it
uploadPut(t) ==
    /\ pc[t] = "put"
    /\ UNCHANGED <<bucketvars, filevars, cfgvars, wfvars, uvars, lock, copies, nextId, object, manifest, calls,
                   copyFailed, startCalls, closeCalls>>
    /\ \E o \in PutOutcomes :
         /\ o \in {"ok", "noetag"} => ServerAcceptsPart(uploads, id, loc[t].num)
         /\ \E k \in flakyDo("PUT", o) :
              requests' = Sent(Req("PUT", "partNumber", loc[t].num), k)
         /\ uploads' = IF o \in {"ok", "noetag"}
                       THEN ServerPutPart(uploads, id, loc[t].num, loc[t].body)
                       ELSE uploads
         /\ IF o = "ok"
            THEN /\ pc' = [pc EXCEPT ![t] = "lock"]
                 /\ loc' = [loc EXCEPT ![t].etag = generateETag(loc[t].body)]
                 /\ okparts' = okparts (+) SetToBag({tagpart(loc[t].num,
                                   generateETag(loc[t].body), loc[t].body.len)})
                 /\ accepted' = Append(accepted, loc[t].num)
                 /\ onlyUploads' = (onlyUploads /\ loc[t].op = "Upload"
                                    /\ loc[t].num \notin Range(accepted))
                 /\ UNCHANGED <<ret, opFailed>>
            ELSE /\ pc' = [pc EXCEPT ![t] = "idle"]
                 /\ loc' = [loc EXCEPT ![t] = Idle]
                 /\ ret' = Ret(loc[t].op, Err("UploadPart: " \o o, 0), TRUE, finished)
                 /\ opFailed' = (opFailed \/ loc[t].op = "Upload")
                 /\ onlyUploads' = FALSE
                 /\ UNCHANGED <<okparts, accepted>>

\* uploader.upload: u.lock.Lock() and the reads of the critical section
uploadLock(t) ==
    /\ pc[t] = "lock" /\ LockFree
    /\ lock' = t
    /\ pc' = [pc EXCEPT ![t] = "rec"]
    /\ loc' = [loc EXCEPT ![t].rmax = maxpart, ![t].rparts = parts]
    /\ UNCHANGED <<bucketvars, filevars, cfgvars, wfvars, uvars, copies, svars, requests, manifest, calls, ret, ghost>>

\* uploader.upload: the writes of the critical section and u.lock.Unlock()
uploadRecord(t) ==
    /\ pc[t] = "rec"
    /\ maxpart' = IF loc[t].num > loc[t].rmax THEN loc[t].num ELSE maxpart
    /\ parts' = Append(loc[t].rparts, tagpart(loc[t].num, loc[t].etag, loc[t].body.len))
    /\ lock' = 0
    /\ IF loc[t].op = "Close"
       THEN /\ pc' = [pc EXCEPT ![t] = "wait"]
            /\ loc' = [loc EXCEPT ![t] = [Idle EXCEPT !.op = "Close"]]
            /\ UNCHANGED ret
       ELSE /\ pc' = [pc EXCEPT ![t] = "idle"]
            /\ loc' = [loc EXCEPT ![t] = Idle]
            /\ ret' = Ret("Upload", NoErr, TRUE, finished)
    /\ UNCHANGED <<bucketvars, filevars, cfgvars, wfvars, started, finished, id, part, finalETag, bg, asyncerr,
                   copies, svars, requests, manifest, calls, ghost>>

\* uploader.CopyFrom: the checks before the copy is launched
CopyFromSize(rng) == IF rng[1] # 0 \/ rng[2] # 0 THEN rng[2] - rng[1] ELSE SourceSize
CopyFromError(rng) ==
    IF (rng[1] # 0 \/ rng[2] # 0) /\ (rng[1] < 0 \/ rng[2] < 0)
    THEN "start and end values must be positive numbers"
    ELSE IF (rng[1] # 0 \/ rng[2] # 0) /\ rng[2] > SourceSize
    THEN "end value greater than source size"
    ELSE IF CopyFromSize(rng) < MinPartSize
    THEN "below min part size"
    ELSE ""
LiveCopies == Cardinality({c \in Slots : copies[c].pc # "none"})
             + Cardinality({t \in Callers : loc[t].op = "CopyFrom"})

CopyFromCall(t, num, rng) ==
    /\ FirstIdle(t) /\ PartOpsOnly /\ calls < budget
    /\ LiveCopies < MaxCopies
    /\ calls' = calls + 1
    /\ UNCHANGED <<bucketvars, filevars, cfgvars, wfvars, uvars, lock, copies, svars, requests, manifest,
                   okparts, accepted, opFailed, copyFailed, startCalls, closeCalls>>
    /\ IF ~started
       THEN /\ ret' = Ret("CopyFrom", Panic("CopyFrom before Start()"), started, finished)
            /\ UNCHANGED <<pc, loc, onlyUploads>>
       ELSE IF CopyFromError(rng) # ""
       THEN /\ ret' = Ret("CopyFrom", Err(CopyFromError(rng), 0), started, finished)
            /\ onlyUploads' = FALSE
            /\ UNCHANGED <<pc, loc>>
       ELSE /\ pc' = [pc EXCEPT ![t] = "cflock"]
            /\ loc' = [loc EXCEPT ![t] = [Idle EXCEPT !.op = "CopyFrom", !.num = num,
                           !.rng = rng, !.body = Bytes("src", rng[1], CopyFromSize(rng))]]
            /\ onlyUploads' = FALSE
            /\ UNCHANGED ret

\* uploader.CopyFrom: u.lock.Lock() and the read of maxpart
CopyFromLock(t) ==
    /\ pc[t] = "cflock" /\ LockFree
    /\ lock' = t
    /\ pc' = [pc EXCEPT ![t] = "cfrec"]
    /\ loc' = [loc EXCEPT ![t].rmax = maxpart]
    /\ UNCHANGED <<bucketvars, filevars, cfgvars, wfvars, uvars, copies, svars, requests, manifest, calls, ret, ghost>>

\* a CopyFrom that leaves maxpart to the copy it launches
CopyFromLaunch_MaxpartKept(t) ==
    /\ pc[t] = "cfrec"
    /\ maxpart' = maxpart
    /\ lock' = 0
    /\ bg' = bg + 1
    /\ \E c \in Slots :
         /\ copies[c].pc = "none"
         /\ \A d \in Slots : copies[d].pc = "none" => c <= d
         /\ copies' = [copies EXCEPT ![c] = [NoCopy EXCEPT !.pc = "put", !.num = loc[t].num,
                           !.rng = loc[t].rng, !.body = loc[t].body]]
    /\ pc' = [pc EXCEPT ![t] = "idle"]
    /\ loc' = [loc EXCEPT ![t] = Idle]
    /\ ret' = Ret("CopyFrom", NoErr, TRUE, finished)
    /\ accepted' = Append(accepted, loc[t].num)
    /\ UNCHANGED <<bucketvars, filevars, cfgvars, wfvars, started, finished, id, part, finalETag, parts, asyncerr,
                   svars, requests, manifest, calls, okparts, opFailed, copyFailed,
                   startCalls, closeCalls, onlyUploads>>

\* uploader.CopyFrom: the write of maxpart, u.lock.Unlock(), u.bg.Add(1) and
\* go u.copy(...)
CopyFromLaunch(t) ==
    /\ pc[t] = "cfrec"
    /\ maxpart' = IF loc[t].num > loc[t].rmax THEN loc[t].num ELSE maxpart
    /\ lock' = 0
    /\ bg' = bg + 1
    /\ \E c \in Slots :
         /\ copies[c].pc = "none"
         /\ \A d \in Slots : copies[d].pc = "none" => c <= d
         /\ copies' = [copies EXCEPT ![c] = [NoCopy EXCEPT !.pc = "put", !.num = loc[t].num,
                           !.rng = loc[t].rng, !.body = loc[t].body]]
    /\ pc' = [pc EXCEPT ![t] = "idle"]
    /\ loc' = [loc EXCEPT ![t] = Idle]
    /\ ret' = Ret("CopyFrom", NoErr, TRUE, finished)
    /\ accepted' = Append(accepted, loc[t].num)
    /\ UNCHANGED <<bucketvars, filevars, cfgvars, wfvars, started, finished, id, part, finalETag, parts, asyncerr,
                   svars, requests, manifest, calls, okparts, opFailed, copyFailed,
                   startCalls, closeCalls, onlyUploads>>

\* uploader.copy: the copy-part PUT through flakyDo, and what the response
\* makes of it
copyPut(c) ==
    /\ copies[c].pc = "put"
    /\ UNCHANGED <<bucketvars, filevars, cfgvars, wfvars, uvars, lock, pc, loc, nextId, object, manifest, calls, ret,
                   accepted, opFailed, startCalls, closeCalls, onlyUploads>>
    /\ \E o \in PutOutcomes :
         /\ o \in {"ok", "noetag"} => ServerAcceptsPart(uploads, id, copies[c].num)
         /\ \E k \in flakyDo("PUT", o) :
              requests' = Sent(Req("PUT", "copy", copies[c].num), k)
         /\ uploads' = IF o \in {"ok", "noetag"}
                       THEN ServerPutPart(uploads, id, copies[c].num, copies[c].body)
                       ELSE uploads
         /\ IF o = "ok"
            THEN /\ copies' = [copies EXCEPT ![c].pc = "lock",
                                             ![c].etag = generateETag(copies[c].body)]
                 /\ okparts' = okparts (+) SetToBag({tagpart(copies[c].num,
                                   generateETag(copies[c].body), copies[c].body.len)})
                 /\ UNCHANGED copyFailed
            ELSE /\ copies' = [copies EXCEPT ![c].pc = "elock",
                                             ![c].e = Err("CopyFrom: " \o o, copies[c].num)]
                 /\ copyFailed' = TRUE
                 /\ UNCHANGED okparts

\* uploader.noteErr: u.lock.Lock() and the read of asyncerr
copyErrLock(c) ==
    /\ copies[c].pc = "elock" /\ LockFree
    /\ lock' = CopyHolder(c)
    /\ copies' = [copies EXCEPT ![c].pc = "enote", ![c].rerr = asyncerr]
    /\ UNCHANGED <<bucketvars, filevars, cfgvars, wfvars, uvars, pc, loc, svars, requests, manifest, calls, ret, ghost>>

\* a noteErr that drops the error, and one that keeps the last error
noteErr_Dropped(old, err) == old
noteErr_LastWins(old, err) == err

\* uploader.noteErr: the first error is kept
noteErr(old, err) == IF old = NoErr THEN err ELSE old

\* uploader.noteErr: the write of asyncerr and the deferred Unlock; then the
\* deferred u.bg.Done() of copy
copyErrNote(c) ==
    /\ copies[c].pc = "enote"
    /\ asyncerr' = noteErr(copies[c].rerr, copies[c].e)
    /\ lock' = 0
    /\ bg' = bg - 1
    /\ copies' = [copies EXCEPT ![c] = NoCopy]
    /\ UNCHANGED <<bucketvars, filevars, cfgvars, wfvars, started, finished, id, part, finalETag, parts, maxpart,
                   pc, loc, svars, requests, manifest, calls, ret, ghost>>

\* uploader.copy: u.lock.Lock() and the read of u.parts
copyLock(c) ==
    /\ copies[c].pc = "lock" /\ LockFree
    /\ lock' = CopyHolder(c)
    /\ copies' = [copies EXCEPT ![c].pc = "rec", ![c].rparts = parts]
    /\ UNCHANGED <<bucketvars, filevars, cfgvars, wfvars, uvars, pc, loc, svars, requests, manifest, calls, ret, ghost>>

\* uploader.copy: the append, u.lock.Unlock() and the deferred u.bg.Done()
copyRecord(c) ==
    /\ copies[c].pc = "rec"
    /\ parts' = Append(copies[c].rparts,
                       tagpart(copies[c].num, copies[c].etag, copies[c].body.len))
    /\ lock' = 0
    /\ bg' = bg - 1
    /\ copies' = [copies EXCEPT ![c] = NoCopy]
    /\ UNCHANGED <<bucketvars, filevars, cfgvars, wfvars, started, finished, id, part, finalETag, maxpart, asyncerr,
                   pc, loc, svars, requests, manifest, calls, ret, ghost>>

\* a Close that does not check started, and one that does not check finished
ClosePanics_StartedUnchecked == finished
ClosePanics_FinishedUnchecked == ~started

\* uploader.Close: the panics of a Close that may not be made
ClosePanics == ~started \/ finished

\* uploader.Close: the checks, and the start of the upload of the tail
Close(final) ==
    /\ calls' = calls + 1
    /\ closeCalls' = closeCalls + 1
    /\ UNCHANGED <<bucketvars, filevars, cfgvars, wfvars, uvars, lock, copies, svars, requests, manifest,
                   okparts, accepted, opFailed, copyFailed, startCalls, onlyUploads>>
    /\ IF ClosePanics
       THEN /\ ret' = Ret("Close", Panic(IF ~started THEN "Close before Start()"
                                         ELSE "multiple calls to Close"), started, finished)
            /\ UNCHANGED <<pc, loc>>
       ELSE /\ UNCHANGED ret
            /\ IF final.len > 0
               THEN /\ pc' = [pc EXCEPT ![1] = "put"]
                    /\ loc' = [loc EXCEPT ![1] = [Idle EXCEPT !.op = "Close",
                                   !.num = maxpart + 1, !.body = final]]
               ELSE /\ pc' = [pc EXCEPT ![1] = "wait"]
                    /\ loc' = [loc EXCEPT ![1] = [Idle EXCEPT !.op = "Close"]]

\* a caller's call of Close, with no other call in progress
CloseCall(final) == Quiet /\ calls < budget /\ Close(final)

\* the Complete request body: the part numbers and ETags of u.parts
CompleteBody(ps) == [i \in 1 .. Len(ps) |-> [Num |-> ps[i].Num, ETag |-> ps[i].ETag]]

\* a Close that stores the ETag of the response before it looks at what the
\* response is
CloseComplete_ETagFirst ==
    /\ pc[1] = "wait" /\ WaitDone
    /\ pc' = [pc EXCEPT ![1] = "idle"]
    /\ loc' = [loc EXCEPT ![1] = Idle]
    /\ UNCHANGED <<bucketvars, filevars, cfgvars, wfvars, started, id, part, lock, maxpart, bg, asyncerr, copies,
                   nextId, calls, ghost>>
    /\ IF asyncerr # NoErr
       THEN /\ ret' = Ret("Close", asyncerr, TRUE, FALSE)
            /\ UNCHANGED <<finished, finalETag, parts, uploads, object, requests, manifest>>
       ELSE \E sorted \in SortSlice(parts) :
              /\ parts' = sorted
              /\ manifest' = CompleteBody(sorted)
              /\ \E o \in CompleteOutcomes :
                   /\ \E k \in flakyDo("POST", o) :
                        requests' = Sent(Req("POST", "uploadId", 0), k)
                   /\ o \notin {"transport", "status", "errorxml"}
                        => ServerCanComplete(uploads, id, CompleteBody(sorted))
                   /\ IF o \in {"transport", "status", "errorxml"}
                      THEN UNCHANGED <<uploads, object>>
                      ELSE /\ object' = [exists |-> TRUE,
                                content |-> ServerAssemble(uploads, id, CompleteBody(sorted))]
                           /\ uploads' = ServerDrop(uploads, id)
                   /\ IF o = "ok"
                      THEN /\ finished' = TRUE
                           /\ finalETag' = <<"md5", "object">>
                           /\ ret' = Ret("Close", NoErr, TRUE, FALSE)
                      ELSE /\ ret' = Ret("Close", Err("Close: " \o o, 0), TRUE, FALSE)
                           /\ finalETag' = <<"md5", "object">>
                           /\ UNCHANGED finished

\* uploader.Close from u.bg.Wait() on: the parked error, the sort, the
\* Complete request and its response
CloseComplete ==
    /\ pc[1] = "wait" /\ WaitDone
    /\ pc' = [pc EXCEPT ![1] = "idle"]
    /\ loc' = [loc EXCEPT ![1] = Idle]
    /\ UNCHANGED <<bucketvars, filevars, cfgvars, wfvars, started, id, part, lock, maxpart, bg, asyncerr, copies,
                   nextId, calls, ghost>>
    /\ IF asyncerr # NoErr
       THEN /\ ret' = Ret("Close", asyncerr, TRUE, FALSE)
            /\ UNCHANGED <<finished, finalETag, parts, uploads, object, requests, manifest>>
       ELSE \E sorted \in SortSlice(parts) :
              /\ parts' = sorted
              /\ manifest' = CompleteBody(sorted)
              /\ \E o \in CompleteOutcomes :
                   /\ \E k \in flakyDo("POST", o) :
                        requests' = Sent(Req("POST", "uploadId", 0), k)
                   /\ o \notin {"transport", "status", "errorxml"}
                        => ServerCanComplete(uploads, id, CompleteBody(sorted))
                   /\ IF o \in {"transport", "status", "errorxml"}
                      THEN UNCHANGED <<uploads, object>>
                      ELSE /\ object' = [exists |-> TRUE,
                                content |-> ServerAssemble(uploads, id, CompleteBody(sorted))]
                           /\ uploads' = ServerDrop(uploads, id)
                   /\ IF o = "ok"
                      THEN /\ finished' = TRUE
                           /\ finalETag' = <<"md5", "object">>
                           /\ ret' = Ret("Close", NoErr, TRUE, FALSE)
                      ELSE /\ ret' = Ret("Close", Err("Close: " \o o, 0), TRUE, FALSE)
                           /\ UNCHANGED <<finished, finalETag>>

\* an Abort that does not check finished
AbortNoOp_FinishedUnchecked == ~started

\* uploader.Abort: the uploader is not started, or has finished
AbortNoOp == ~started \/ finished

\* uploader.Abort: nothing to do unless started and not finished
AbortCall ==
    /\ Quiet /\ calls < budget
    /\ calls' = calls + 1
    /\ UNCHANGED <<bucketvars, filevars, cfgvars, wfvars, uvars, lock, copies, svars, requests, manifest, ghost>>
    /\ IF AbortNoOp
       THEN /\ ret' = Ret("Abort", NoErr, started, finished)
            /\ UNCHANGED <<pc, loc>>
       ELSE /\ pc' = [pc EXCEPT ![1] = "await"]
            /\ loc' = [loc EXCEPT ![1] = [Idle EXCEPT !.op = "Abort"]]
            /\ UNCHANGED ret

\* uploader.Abort: the fields the reset of a successful Abort clears
AbortReset ==
    /\ part' = 0 /\ started' = FALSE /\ finished' = FALSE
    /\ id' = 0 /\ parts' = <<>>
    /\ UNCHANGED <<maxpart, asyncerr>>

\* uploader.Abort from u.bg.Wait() on: the DELETE and the reset of the state
AbortDelete ==
    /\ pc[1] = "await" /\ WaitDone
    /\ pc' = [pc EXCEPT ![1] = "idle"]
    /\ loc' = [loc EXCEPT ![1] = Idle]
    /\ requests' = Sent(Req("DELETE", "uploadId", 0), 1)
    /\ UNCHANGED <<bucketvars, filevars, cfgvars, wfvars, finalETag, lock, bg, copies, nextId,
                   object, manifest, calls>>
    /\ \E o \in AbortOutcomes :
         /\ o = "ok" => id \in DOMAIN uploads
         /\ IF o = "ok"
            THEN /\ uploads' = ServerDrop(uploads, id)
                 /\ AbortReset
                 /\ ret' = Ret("Abort", NoErr, TRUE, FALSE)
                 /\ GhostNewUpload
                 /\ startCalls' = 0
            ELSE /\ ret' = Ret("Abort", Err("Abort: " \o o, 0), TRUE, FALSE)
                 /\ UNCHANGED <<uploads, part, started, finished, id, parts, maxpart,
                                asyncerr, ghost>>

Next ==
    \/ Start
    \/ \E t \in Callers : NextPart(t)
    \/ \E t \in Callers, a \in UploadArgs : UploadCall(t, a[1], a[2])
    \/ \E t \in Callers : uploadPut(t)
    \/ \E t \in Callers : uploadLock(t)
    \/ \E t \in Callers : uploadRecord(t)
    \/ \E t \in Callers, a \in CopyArgs : CopyFromCall(t, a[1], a[2])
    \/ \E t \in Callers : CopyFromLock(t)
    \/ \E t \in Callers : CopyFromLaunch(t)
    \/ \E c \in Slots : copyPut(c)
    \/ \E c \in Slots : copyErrLock(c)
    \/ \E c \in Slots : copyErrNote(c)
    \/ \E c \in Slots : copyLock(c)
    \/ \E c \in Slots : copyRecord(c)
    \/ \E final \in Finals : CloseCall(final)
    \/ CloseComplete
    \/ AbortCall
    \/ AbortDelete

Spec == Init /\ [][Next]_vars

\* ------------------------------------------------- WriteFrom / UploadFrom
\* bytes lo .. lo + len - 1 of the source WriteFrom reads
Source(lo, len) == Bytes("r", lo, len)
\* the sizes WriteFrom is called with: up to MaxFullParts full parts, with
\* and without a tail of TailLen bytes
Sizes == {n * MinPartSize + t : n \in 0 .. MaxFullParts, t \in {0, TailLen}}
\* what a ReadAt of the source gives: all the bytes asked for, or fewer
Reads == {"full", "short"}

\* calculatePartSize: MinPartSize, doubled until there are at most MaxParts parts
calculatePartSize(totalSize) ==
    LET RECURSIVE Double(_)
        Double(partSize) == IF totalSize \div partSize > MaxParts
                            THEN Double(partSize * 2) ELSE partSize
    IN IF totalSize > 0 THEN Double(MinPartSize) ELSE MinPartSize

\* Go's integer division, which truncates toward zero
Quot(a, b) == IF a >= 0 THEN a \div b ELSE -((-a) \div b)

\* uploader.idealParallel
idealParallel(mbps, nparts) ==
    LET res == IF mbps # 0 THEN Quot(mbps, 800) ELSE MaxParallel
    IN IF nparts < res /\ nparts > 0 THEN nparts
       ELSE IF res <= 0 THEN 1 ELSE res

\* uploader.UploadFrom: the number of full parts, where they end, and the tail
nonfinal(sz) == sz \div calculatePartSize(sz)
endparts(sz) == nonfinal(sz) * calculatePartSize(sz)
tailsize(sz) == sz - endparts(sz)
\* a tail read from the start of the source
tail_FromStart(sz) == IF tailsize(sz) > 0 THEN Source(0, tailsize(sz)) ELSE Nil
tail(sz) == IF tailsize(sz) > 0 THEN Source(endparts(sz), tailsize(sz)) ELSE Nil
\* part numbers that start at 0
PartAt_ZeroBased(loff, partSize) == loff \div partSize
\* the part a worker uploads from offset loff
PartAt(loff, partSize) == (loff \div partSize) + 1

\* context.Canceled, the error of a cancelled context
Canceled == Err("context canceled", 0)

\* errgroup: the first error a worker returns is the group's
groupErr(old, err) == IF old = NoErr THEN err ELSE old

\* WriteFrom has returned
Returned == ret.op = "WriteFrom"
WorkersDone == \A w \in Active : pc[w] = "done"

\* WriteFrom is called once, with a valid key and a size >= 0, on a bucket
\* whose uploader has Mbps = 0; the workers of UploadFrom are the callers
InitWF ==
    /\ Bucket \in {"", "the-bucket"}
    /\ Object = "the-object"
    /\ size \in Sizes
    /\ Mbps = 0
    /\ nthreads = idealParallel(Mbps, nonfinal(size))
    /\ budget = 2
    /\ ctxDone \in BOOLEAN
    /\ offset = 0 /\ gerr = NoErr
    /\ started = FALSE /\ finished = FALSE /\ id = 0 /\ part = 0
    /\ finalETag = <<>>
    /\ lock = 0 /\ parts = <<>> /\ maxpart = 0 /\ bg = 0 /\ asyncerr = NoErr
    /\ pc = [w \in 1 .. nthreads |-> "idle"]
    /\ loc = [w \in 1 .. nthreads |-> Idle]
    /\ copies = [c \in Slots |-> NoCopy]
    /\ uploads = <<>> /\ nextId = 1
    /\ object = [exists |-> FALSE, content |-> <<>>]
    /\ requests = EmptyBag /\ manifest = <<>>
    /\ calls = 0
    /\ ret = [op |-> "", n |-> 0, res |-> NoErr, st |-> FALSE, fin |-> FALSE]
    /\ okparts = EmptyBag /\ accepted = <<>> /\ opFailed = FALSE
    /\ copyFailed = FALSE /\ startCalls = 0 /\ closeCalls = 0
    /\ onlyUploads = TRUE
    /\ NoFile
    /\ NoBucket

\* Bucket.WriteFrom: uploader.Start()
wfStart == calls = 0 /\ Start

\* UploadFrom, a worker at the top of its loop: it takes the next offset,
\* stops at the end of the full parts or when the group is cancelled, and
\* reads the part
wfFetch(w) ==
    /\ FirstIdle(w) /\ started /\ calls = 1 /\ ~Returned
    /\ offset' = offset + calculatePartSize(size)
    /\ UNCHANGED <<bucketvars, filevars, cfgvars, size, uvars, lock, copies, svars, requests, manifest,
                   calls, ret, ghost>>
    /\ IF offset >= endparts(size)
       THEN /\ pc' = [pc EXCEPT ![w] = "done"]
            /\ UNCHANGED <<loc, gerr>>
       ELSE IF ctxDone \/ gerr # NoErr
       THEN /\ gerr' = groupErr(gerr, Canceled)
            /\ pc' = [pc EXCEPT ![w] = "done"]
            /\ UNCHANGED loc
       ELSE \E rd \in Reads :
              IF rd = "short"
              THEN /\ gerr' = groupErr(gerr, Err("unexpected EOF", 0))
                   /\ pc' = [pc EXCEPT ![w] = "done"]
                   /\ UNCHANGED loc
              ELSE /\ pc' = [pc EXCEPT ![w] = "wput"]
                   /\ loc' = [loc EXCEPT ![w] = [Idle EXCEPT !.op = "Upload",
                                  !.num = PartAt(offset, calculatePartSize(size)),
                                  !.body = Source(offset, calculatePartSize(size))]]
                   /\ UNCHANGED gerr

\* UploadFrom, a worker's uploadWithContext: the PUT of its part through
\* flakyDo; a failure ends the worker and is the group's error
wfPut(w) ==
    /\ pc[w] = "wput"
    /\ UNCHANGED <<bucketvars, filevars, cfgvars, size, offset, uvars, lock, copies, nextId, object,
                   manifest, calls, ret, opFailed, copyFailed, startCalls,
                   closeCalls, onlyUploads>>
    /\ \E o \in PutOutcomes :
         /\ o \in {"ok", "noetag"} => ServerAcceptsPart(uploads, id, loc[w].num)
         /\ \E k \in flakyDo("PUT", o) :
              requests' = Sent(Req("PUT", "partNumber", loc[w].num), k)
         /\ uploads' = IF o \in {"ok", "noetag"}
                       THEN ServerPutPart(uploads, id, loc[w].num, loc[w].body)
                       ELSE uploads
         /\ IF o = "ok"
            THEN /\ pc' = [pc EXCEPT ![w] = "lock"]
                 /\ loc' = [loc EXCEPT ![w].etag = generateETag(loc[w].body)]
                 /\ okparts' = okparts (+) SetToBag({tagpart(loc[w].num,
                                   generateETag(loc[w].body), loc[w].body.len)})
                 /\ accepted' = Append(accepted, loc[w].num)
                 /\ UNCHANGED gerr
            ELSE /\ pc' = [pc EXCEPT ![w] = "done"]
                 /\ loc' = [loc EXCEPT ![w] = Idle]
                 /\ gerr' = groupErr(gerr, Err("UploadPart: " \o o, loc[w].num))
                 /\ UNCHANGED <<okparts, accepted>>

\* UploadFrom after g.Wait() returned nil: the tail is read and Close called
wfClose ==
    /\ started /\ calls = 1 /\ ~Returned /\ WorkersDone /\ gerr = NoErr
    /\ \E rd \in Reads :
         IF rd = "short" /\ tailsize(size) > 0
         THEN /\ ret' = Ret("WriteFrom", Err("unexpected EOF", 0), started, finished)
              /\ UNCHANGED <<bucketvars, filevars, cfgvars, wfvars, uvars, lock, pc, loc, copies, svars,
                             requests, manifest, calls, ghost>>
         ELSE Close(tail(size))

\* WriteFrom returns: the error of Start, the error of the group, or what
\* Close returned
wfReturn ==
    /\ ~Returned
    /\ \/ /\ calls = 1 /\ ret.op = "Start" /\ ret.res # NoErr
          /\ ret' = Ret("WriteFrom", Err("starting multipart upload", 0), started, finished)
       \/ /\ calls = 1 /\ started /\ WorkersDone /\ gerr # NoErr
          /\ ret' = Ret("WriteFrom", gerr, started, finished)
       \/ /\ calls = 2 /\ ret.op = "Close" /\ pc[1] = "idle"
          /\ ret' = Ret("WriteFrom", ret.res, started, finished)
    /\ UNCHANGED <<bucketvars, filevars, cfgvars, wfvars, uvars, lock, pc, loc, copies, svars, requests,
                   manifest, calls, ghost>>

NextWF ==
    \/ wfStart
    \/ \E w \in Active : wfFetch(w)
    \/ \E w \in Active : wfPut(w)
    \/ \E w \in Active : uploadLock(w)
    \/ \E w \in Active : uploadRecord(w)
    \/ wfClose
    \/ \E w \in Active : uploadPut(w)
    \/ CloseComplete
    \/ wfReturn

SpecWF == InitWF /\ [][NextWF]_vars

\* ------------------------------------------- UploadFrom's number of workers
\* the Mbps an uploader is given (none, negative, and up to more than 40
\* connections' worth) and the full parts of the source UploadFrom is given
MbpsValues == {k * MbpsStep : k \in -1 .. MaxMbpsSteps} \cup {1, 799, 801}
SplitParts == {0, 1, 2, MaxParallel - 1, MaxParallel, MaxParallel + 1, MaxSplitParts}

\* an uploader with a Mbps hint, before UploadFrom has computed its number
\* of workers
InitPar ==
    /\ Bucket = "the-bucket" /\ Object = "the-object"
    /\ Mbps \in MbpsValues
    /\ size \in {n * MinPartSize : n \in SplitParts}
    /\ nthreads = 0 /\ budget = 0 /\ ctxDone = FALSE
    /\ offset = 0 /\ gerr = NoErr
    /\ started = FALSE /\ finished = FALSE /\ id = 0 /\ part = 0
    /\ finalETag = <<>>
    /\ lock = 0 /\ parts = <<>> /\ maxpart = 0 /\ bg = 0 /\ asyncerr = NoErr
    /\ pc = <<>> /\ loc = <<>>
    /\ copies = [c \in Slots |-> NoCopy]
    /\ uploads = <<>> /\ nextId = 1
    /\ object = [exists |-> FALSE, content |-> <<>>]
    /\ requests = EmptyBag /\ manifest = <<>>
    /\ calls = 0
    /\ ret = [op |-> "", n |-> 0, res |-> NoErr, st |-> FALSE, fin |-> FALSE]
    /\ okparts = EmptyBag /\ accepted = <<>> /\ opFailed = FALSE
    /\ copyFailed = FALSE /\ startCalls = 0 /\ closeCalls = 0
    /\ onlyUploads = TRUE
    /\ NoFile
    /\ NoBucket

\* uploader.UploadFrom: parallel := u.idealParallel(nonfinal)
ufParallel ==
    /\ nthreads = 0
    /\ nthreads' = idealParallel(Mbps, nonfinal(size))
    /\ UNCHANGED <<bucketvars, filevars, Bucket, Object, Mbps, budget, ctxDone, wfvars, uvars, lock, pc, loc,
                   copies, svars, requests, manifest, calls, ret, ghost>>

NextPar == ufParallel

SpecPar == InitPar /\ [][NextPar]_vars

\* ------------------------------------------- UploadFrom's number of parts
\* A size of UploadFrom that has more than MaxParts parts of MinPartSize does
\* not fit a 32-bit integer: it is kept as whole * MinPartSize + rest bytes,
\* 0 <= rest < MinPartSize, and a part size as a number of MinPartSize.
SplitSpan == 3
SplitFactors == {0, 1, 2, 4}
WideSizes ==
    {[whole |-> f * MaxParts + d, rest |-> r] :
        f \in SplitFactors, d \in 0 .. 2 * SplitSpan,
        r \in {0, 1, MinPartSize - 1}}
    \cup {[whole |-> MaxParts - d, rest |-> r] :
             d \in 1 .. SplitSpan, r \in {0, 1, MinPartSize - 1}}

\* totalSize > 0
PositiveWide(sz) == sz.whole > 0 \/ (sz.whole = 0 /\ sz.rest > 0)
\* a calculatePartSize that doubles the part size once at most
calculatePartSizeWide_Once(sz) ==
    IF PositiveWide(sz) /\ sz.whole > MaxParts THEN 2 ELSE 1
\* calculatePartSize: totalSize / partSize is whole \div units, rest being
\* less than MinPartSize
calculatePartSizeWide(sz) ==
    LET RECURSIVE Double(_)
        Double(units) == IF sz.whole \div units > MaxParts
                         THEN Double(units * 2) ELSE units
    IN IF PositiveWide(sz) THEN Double(1) ELSE 1
\* uploader.UploadFrom: nonfinal := size / partSize
nonfinalWide(sz) == sz.whole \div calculatePartSizeWide(sz)
\* uploader.UploadFrom: tailsize := size - endparts, which Close uploads as
\* one more part when it is not 0
tailsizeWide(sz) ==
    [whole |-> sz.whole % calculatePartSizeWide(sz), rest |-> sz.rest]
hasTailWide(sz) == tailsizeWide(sz).whole # 0 \/ tailsizeWide(sz).rest # 0

\* an uploader that UploadFrom is called on with a size
InitSplit ==
    /\ Bucket = "the-bucket" /\ Object = "the-object"
    /\ Mbps = 0 /\ nthreads = 0 /\ budget = 1 /\ ctxDone = FALSE
    /\ size \in WideSizes
    /\ offset = 0 /\ gerr = NoErr
    /\ started = TRUE /\ finished = FALSE /\ id = 1 /\ part = 0
    /\ finalETag = <<>>
    /\ lock = 0 /\ parts = <<>> /\ maxpart = 0 /\ bg = 0 /\ asyncerr = NoErr
    /\ pc = <<>> /\ loc = <<>>
    /\ copies = [c \in Slots |-> NoCopy]
    /\ uploads = <<>> /\ nextId = 1
    /\ object = [exists |-> FALSE, content |-> <<>>]
    /\ requests = EmptyBag /\ manifest = <<>>
    /\ calls = 0
    /\ ret = [op |-> "", n |-> 0, res |-> NoErr, st |-> FALSE, fin |-> FALSE]
    /\ okparts = EmptyBag /\ accepted = <<>> /\ opFailed = FALSE
    /\ copyFailed = FALSE /\ startCalls = 0 /\ closeCalls = 0
    /\ onlyUploads = TRUE
    /\ NoFile
    /\ NoBucket

\* uploader.UploadFrom, every request succeeding: the workers upload parts
\* 1 .. nonfinal and Close uploads the tail as the part after them; part is
\* the number of parts the workers took, maxpart the highest part number
ufSplit ==
    /\ calls < budget
    /\ calls' = calls + 1
    /\ part' = nonfinalWide(size)
    /\ maxpart' = nonfinalWide(size) + (IF hasTailWide(size) THEN 1 ELSE 0)
    /\ finished' = TRUE
    /\ UNCHANGED <<bucketvars, filevars, cfgvars, wfvars, started, id, finalETag,
                   parts, bg, asyncerr, lock, pc, loc, copies, svars, requests,
                   manifest, ret, ghost>>

NextSplit == ufSplit

SpecSplit == InitSplit /\ [][NextSplit]_vars

\* ------------------------------------------------------ calculatePartSize
\* the sizes calculatePartSize is called with: those of UploadFrom, and
\* sizes below 0 (whole * MinPartSize + rest, whole < 0)
PartSizeInputs ==
    WideSizes \cup {[whole |-> -w, rest |-> r] :
                        w \in 1 .. SplitSpan, r \in {0, 1, MinPartSize - 1}}

InitPartSize ==
    /\ Bucket = "the-bucket" /\ Object = "the-object"
    /\ Mbps = 0 /\ nthreads = 0 /\ budget = 1 /\ ctxDone = FALSE
    /\ size \in PartSizeInputs
    /\ offset = 0 /\ gerr = NoErr
    /\ started = FALSE /\ finished = FALSE /\ id = 0 /\ part = 0
    /\ finalETag = <<>>
    /\ lock = 0 /\ parts = <<>> /\ maxpart = 0 /\ bg = 0 /\ asyncerr = NoErr
    /\ pc = <<>> /\ loc = <<>>
    /\ copies = [c \in Slots |-> NoCopy]
    /\ uploads = <<>> /\ nextId = 1
    /\ object = [exists |-> FALSE, content |-> <<>>]
    /\ requests = EmptyBag /\ manifest = <<>>
    /\ calls = 0
    /\ ret = [op |-> "", n |-> 0, res |-> NoErr, st |-> FALSE, fin |-> FALSE]
    /\ okparts = EmptyBag /\ accepted = <<>> /\ opFailed = FALSE
    /\ copyFailed = FALSE /\ startCalls = 0 /\ closeCalls = 0
    /\ onlyUploads = TRUE
    /\ NoFile
    /\ NoBucket

\* one call of calculatePartSize(size); ret.n is the part size it returns, as
\* a number of MinPartSize
partSizeCall ==
    /\ calls < budget
    /\ calls' = calls + 1
    /\ ret' = [ret EXCEPT !.op = "calculatePartSize",
                          !.n = calculatePartSizeWide(size)]
    /\ UNCHANGED <<bucketvars, filevars, cfgvars, wfvars, uvars, lock, pc, loc,
                   copies, svars, requests, manifest, ghost>>

NextPartSize == partSizeCall

SpecPartSize == InitPartSize /\ [][NextPartSize]_vars

\* ------------------------------------------------------------- File
\* Reader.Size of the File, the longest buffer Read is given, the number of
\* versions the object goes through, the lengths a new version may have
FileSize == 3
MaxBuf == 2
MaxVersions == 2
NewSizes == {FileSize - 1, FileSize, FileSize + 1}
Whences == {"SeekStart", "SeekCurrent", "SeekEnd", "other"}
SeekOffsets == -(FileSize + 1) .. FileSize + 1

\* version v of the object: byte i of it is <<v, i>>
ETagOf(v) == <<"etag", v>>
Content(v, n) == [i \in 1 .. n |-> <<v, i - 1>>]
VersionOf(o) == o.etag[2]
Min(a, b) == IF a <= b THEN a ELSE b
\* the ETags OpenRange is called with
WrongETag == <<"etag", 0>>
RangeETags == {NoETag, ETagOf(1), WrongETag}
\* the ranges it is called with: a width of 0 asks for all that follows
RangeStarts == {0, 1}
RangeWidths == {0, FileSize - 1}

\* Reader.RangeReader: the Range header of the request
RangeHeader(start, width) ==
    IF width <= 0 THEN [start |-> start, end |-> 0, open |-> TRUE]
    ELSE [start |-> start, end |-> start + width - 1, open |-> FALSE]
\* Reader.RangeReader: the If-Match header, absent (NoETag) when the
\* Reader has no ETag
IfMatch(etag) == etag
\* the request of RangeReader(start, width) on a Reader with this ETag; cur is
\* the ETag the object has when the request is made, answered whether the
\* server got to answer it
GetRequest(etag, start, width, o) ==
    [sent |-> TRUE, etag |-> etag, range |-> RangeHeader(start, width),
     ifmatch |-> IfMatch(etag), cur |-> o.etag, answered |-> TRUE]

\* parseRange: bytes=start-end, the end being the last byte when left open
parseRange(rng, len) ==
    LET end == IF rng.open THEN len - 1 ELSE rng.end
    IN IF rng.start < 0 \/ end >= len \/ rng.start > end
       THEN [ok |-> FALSE, start |-> 0, end |-> 0]
       ELSE [ok |-> TRUE, start |-> rng.start, end |-> end]
\* the If-Match precondition of GET Object: 412 when the ETag is not the
\* object's
PreconditionFailed(o, req) == req.ifmatch # NoETag /\ req.ifmatch # o.etag
\* handleGetObject: the status and the body of the response
ServerGet(o, req) ==
    IF PreconditionFailed(o, req) THEN [status |-> 412, data |-> <<>>]
    ELSE LET r == parseRange(req.range, Len(o.content))
         IN IF ~r.ok THEN [status |-> 416, data |-> <<>>]
            ELSE [status |-> 206,
                  data |-> SubSeq(o.content, r.start + 1, r.end + 1)]

\* Reader.RangeReader: the request fails on the way, or the response is
\* turned into an error or a body
RangeReader(etag, start, width, o) ==
    LET resp == ServerGet(o, GetRequest(etag, start, width, o))
    IN {[err |-> "transport", answered |-> FALSE, body |-> NoBody],
        [err |-> CASE resp.status = 412 -> "ETagChanged"
                   [] resp.status = 416 -> "RangeNotSatisfiable"
                   [] OTHER -> "nil",
         answered |-> TRUE,
         body |-> IF resp.status = 206
                  THEN [open |-> TRUE, rest |-> resp.data, broken |-> FALSE]
                  ELSE NoBody]}

\* body.Read(p) with len(p) = k: the bytes delivered, the error, the body
\* afterwards; a connection that is reset stays broken
bodyRead(b, k) ==
    LET took(n) == SubSeq(b.rest, 1, n)
        left(n) == SubSeq(b.rest, n + 1, Len(b.rest))
        most == Min(k, Len(b.rest))
    IN IF b.broken THEN {[n |-> 0, err |-> "reset", data |-> <<>>, body |-> b]}
       ELSE {[n |-> 0, err |-> "reset", data |-> <<>>,
              body |-> [b EXCEPT !.broken = TRUE]]}
            \cup (IF k = 0
                  THEN {[n |-> 0, err |-> "nil", data |-> <<>>, body |-> b]}
                  ELSE IF b.rest = <<>>
                  THEN {[n |-> 0, err |-> "EOF", data |-> <<>>, body |-> b]}
                  ELSE {[n |-> n, err |-> "nil", data |-> took(n),
                         body |-> [b EXCEPT !.rest = left(n)]] : n \in 1 .. most}
                       \cup {[n |-> n, err |-> "reset", data |-> took(n),
                              body |-> [b EXCEPT !.rest = left(n),
                                                 !.broken = TRUE]] :
                                 n \in 1 .. most}
                       \cup {[n |-> n, err |-> "EOF", data |-> took(n),
                              body |-> [b EXCEPT !.rest = left(n)]] :
                                 n \in {m \in 1 .. most : m = Len(b.rest)}})

Versions(data) == {data[i][1] : i \in 1 .. Len(data)}
\* what a call on the File returned, with its arguments, File.pos and whether
\* File.body was set when it was made, and the request it sent
Called(op, arg, n, err, data, req) ==
    [op |-> op, n |-> n, err |-> err, data |-> data, from |-> pos,
     open |-> body.open, arg |-> arg, get |-> req]

InitFile ==
    /\ Bucket = "the-bucket" /\ Object = "the-object"
    /\ Mbps = 0 /\ nthreads = 0 /\ budget = 0 /\ ctxDone = FALSE
    /\ size = 0 /\ offset = 0 /\ gerr = NoErr
    /\ started = FALSE /\ finished = FALSE /\ id = 0 /\ part = 0
    /\ finalETag = <<>>
    /\ lock = 0 /\ parts = <<>> /\ maxpart = 0 /\ bg = 0 /\ asyncerr = NoErr
    /\ pc = <<>> /\ loc = <<>>
    /\ copies = [c \in Slots |-> NoCopy]
    /\ uploads = <<>> /\ nextId = 1
    /\ object = [exists |-> FALSE, content |-> <<>>]
    /\ requests = EmptyBag /\ manifest = <<>>
    /\ calls = 0
    /\ ret = [op |-> "", n |-> 0, res |-> NoErr, st |-> FALSE, fin |-> FALSE]
    /\ okparts = EmptyBag /\ accepted = <<>> /\ opFailed = FALSE
    /\ copyFailed = FALSE /\ startCalls = 0 /\ closeCalls = 0
    /\ onlyUploads = TRUE
    /\ stored = [etag |-> ETagOf(1), content |-> Content(1, FileSize)]
    /\ ETag \in {NoETag, ETagOf(1)}
    /\ body = NoBody /\ pos = 0
    /\ fret = NoCall /\ delivered = {}
    /\ NoBucket

uploadervars == <<Bucket, Object, Mbps, nthreads, budget, wfvars, uvars, lock,
                  pc, loc, copies, svars, requests, manifest, calls, ret, ghost>>

\* File.Read: the first read of an open body is returned when it delivered
\* bytes or ended the body
fileReadBody(k) ==
    /\ body.open
    /\ \E r \in bodyRead(body, k) :
          /\ r.n > 0 \/ r.err = "EOF"
          /\ pos' = pos + r.n
          /\ body' = r.body
          /\ fret' = Called("Read", <<k>>, r.n, r.err, r.data, NoGet)
          /\ delivered' = delivered \cup Versions(r.data)
    /\ UNCHANGED <<ETag, stored, ctxDone, uploadervars, bucketvars>>

\* File.Read: with no body, or with a body whose read delivered nothing and
\* did not end it, which is closed, a new body is opened at File.pos and
\* its first read is returned
fileReadOpen(k) ==
    /\ ~body.open
       \/ \E r \in bodyRead(body, k) : r.n = 0 /\ r.err # "EOF"
    /\ IF ctxDone
       THEN /\ fret' = Called("Read", <<k>>, 0, "context canceled", <<>>, NoGet)
            /\ body' = NoBody
            /\ UNCHANGED <<pos, delivered>>
       ELSE \E rr \in RangeReader(ETag, pos, FileSize - pos, stored) :
               LET req == [GetRequest(ETag, pos, FileSize - pos, stored)
                              EXCEPT !.answered = rr.answered]
               IN IF rr.err # "nil"
                  THEN /\ fret' = Called("Read", <<k>>, 0, rr.err, <<>>, req)
                       /\ body' = NoBody
                       /\ UNCHANGED <<pos, delivered>>
                  ELSE \E r \in bodyRead(rr.body, k) :
                          /\ pos' = pos + r.n
                          /\ body' = r.body
                          /\ fret' = Called("Read", <<k>>, r.n, r.err, r.data, req)
                          /\ delivered' = delivered \cup Versions(r.data)
    /\ UNCHANGED <<ETag, stored, ctxDone, uploadervars, bucketvars>>

\* File.Seek: the offset asked for
SeekTarget(off, whence) ==
    CASE whence = "SeekStart" -> off
      [] whence = "SeekCurrent" -> pos + off
      [] whence = "SeekEnd" -> FileSize + off
\* File.Seek: the offset is outside the object
SeekRejects(newpos) == newpos < 0 \/ newpos > FileSize
\* a Seek that keeps the body wherever it goes
SeekClosesBody_Never(newpos) == FALSE
\* a Seek that closes the body wherever it goes
SeekClosesBody_Always(newpos) == body.open
\* File.Seek: the open body is of no use at another offset
SeekClosesBody(newpos) == newpos # pos /\ body.open

fileSeek(off, whence) ==
    /\ IF whence \notin {"SeekStart", "SeekCurrent", "SeekEnd"}
       THEN /\ fret' = Called("Seek", <<off, whence>>, 0, "panic: invalid seek whence", <<>>, NoGet)
            /\ UNCHANGED <<pos, body>>
       ELSE LET newpos == SeekTarget(off, whence)
            IN IF SeekRejects(newpos)
               THEN /\ fret' = Called("Seek", <<off, whence>>, pos, "invalid seek offset", <<>>, NoGet)
                    /\ UNCHANGED <<pos, body>>
               ELSE /\ body' = IF SeekClosesBody(newpos) THEN NoBody ELSE body
                    /\ pos' = newpos
                    /\ fret' = Called("Seek", <<off, whence>>, newpos, "nil", <<>>, NoGet)
    /\ UNCHANGED <<ETag, stored, delivered, ctxDone, uploadervars, bucketvars>>

\* File.Close
fileClose ==
    /\ IF ~body.open
       THEN UNCHANGED <<pos, body>>
       ELSE body' = NoBody /\ pos' = 0
    /\ fret' = Called("Close", <<>>, 0, "nil", <<>>, NoGet)
    /\ UNCHANGED <<ETag, stored, delivered, ctxDone, uploadervars, bucketvars>>

\* an OpenRange whose Reader has no ETag
ReaderETag_None(etag) == NoETag
\* Bucket.OpenRange: the ETag of the Reader it builds
ReaderETag(etag) == etag

\* Bucket.OpenRange: data is what the body returned holds
OpenRange(etag, start, width) ==
    /\ \E rr \in RangeReader(ReaderETag(etag), start, width, stored) :
          fret' = Called("OpenRange", <<etag, start, width>>, Len(rr.body.rest), rr.err, rr.body.rest,
                         [GetRequest(ReaderETag(etag), start, width, stored)
                             EXCEPT !.answered = rr.answered, !.etag = etag])
    /\ UNCHANGED <<ETag, body, pos, stored, delivered, ctxDone, uploadervars, bucketvars>>

\* handlePutObject: the object is replaced by its next version
putObject ==
    /\ VersionOf(stored) < MaxVersions
    /\ \E n \in NewSizes :
          stored' = [etag |-> ETagOf(VersionOf(stored) + 1),
                     content |-> Content(VersionOf(stored) + 1, n)]
    /\ UNCHANGED <<ETag, body, pos, fret, delivered, ctxDone, uploadervars, bucketvars>>

\* the context of the bucket the File came from is cancelled
ctxCancel ==
    /\ ~ctxDone
    /\ ctxDone' = TRUE
    /\ UNCHANGED <<filevars, uploadervars, bucketvars>>

NextFile ==
    \/ \E k \in 0 .. MaxBuf : fileReadBody(k)
    \/ \E k \in 0 .. MaxBuf : fileReadOpen(k)
    \/ \E off \in SeekOffsets, whence \in Whences : fileSeek(off, whence)
    \/ fileClose
    \/ \E etag \in RangeETags, start \in RangeStarts, width \in RangeWidths :
          OpenRange(etag, start, width)
    \/ putObject
    \/ ctxCancel

SpecFile == InitFile /\ [][NextFile]_vars

\* ------------------------------------------------------------- paths
\* A path is the sequence of its elements between slashes: "a/b" is
\* <<"a", "b">>, "b/" is <<"b", "">>, "/a" is <<"", "a">>, "" is <<"">>.
MaxElems == 3
Elems == {"", ".", "..", "a", "b"}
Names == UNION {[1 .. n -> Elems] : n \in 1 .. MaxElems}
Dot == <<".">>

\* an Open that takes no path for a directory
HasSlashSuffix_Never(name) == FALSE
\* strings.HasSuffix(name, "/")
HasSlashSuffix(name) == Len(name) >= 2 /\ name[Len(name)] = ""
\* the path begins with a slash
Rooted(name) == Len(name) >= 2 /\ name[1] = ""

\* path.Clean: empty and "." elements are dropped, ".." removes the element
\* before it, or stays when there is none and the path is not rooted
Clean(name) ==
    LET RECURSIVE Walk(_, _)
        Walk(rest, out) ==
            IF rest = <<>> THEN out
            ELSE LET e == Head(rest)
                 IN IF e \in {"", "."} THEN Walk(Tail(rest), out)
                    ELSE IF e # ".." THEN Walk(Tail(rest), Append(out, e))
                    ELSE IF out # <<>> /\ out[Len(out)] # ".."
                    THEN Walk(Tail(rest), SubSeq(out, 1, Len(out) - 1))
                    ELSE IF Rooted(name) THEN Walk(Tail(rest), out)
                    ELSE Walk(Tail(rest), Append(out, ".."))
        out == Walk(name, <<>>)
    IN IF Rooted(name) THEN (IF out = <<>> THEN <<"", "">> ELSE <<"">> \o out)
       ELSE IF out = <<>> THEN Dot ELSE out

\* fs.ValidPath: "." or elements none of which is empty, "." or ".."
ValidPath(name) ==
    \/ name = Dot
    \/ \A i \in 1 .. Len(name) : name[i] \notin {"", ".", ".."}

\* the calls of a Bucket that take a path
PathOps == {"Open", "Write", "WriteFrom", "OpenRange", "Delete", "ReadDir",
            "Sub", "VisitDir"}
\* the error a call returns for a path that is not valid: badpath's
\* fs.PathError wraps fs.ErrInvalid, Delete's fmt.Errorf formats it with %s
\* and does not
InvalidError(op) ==
    IF op = "Delete" THEN "invalid argument (not wrapped)" ELSE "ErrInvalid"
\* the paths a call rejects before it sends a request: those that are not
\* valid once cleaned, and "." for the calls that need an object
Rejects(op, name) ==
    \/ ~ValidPath(Clean(name))
    \/ op \in {"Write", "WriteFrom", "OpenRange"} /\ Clean(name) = Dot
\* the calls that return without a request for a path they accept
Requestless(op, name) ==
    \/ op = "Sub"
    \/ op = "Open" /\ Clean(name) = Dot

\* a Bucket and a path one of its calls is given
InitPath ==
    /\ NoUploader
    /\ NoFile
    /\ objects = {} /\ Path = <<>> /\ token = 0 /\ dirEOF = FALSE
    /\ dret = NoDirCall /\ pages = NoPages
    /\ retry = NoRetry
    /\ ureq = [built |-> TRUE]

\* the call up to its first request: sent says whether it gets to send one
bucketPath(op, name) ==
    /\ dret' = [NoDirCall EXCEPT
                   !.op = op, !.arg = name,
                   !.err = IF Rejects(op, name) THEN InvalidError(op) ELSE "nil",
                   !.sent = IF Rejects(op, name) \/ Requestless(op, name)
                            THEN <<>> ELSE <<"request">>]
    /\ UNCHANGED <<objects, Path, token, dirEOF, pages, retry, ureq, filevars,
                   uploadervars, ctxDone>>

NextPath == \E op \in PathOps, name \in Names : bucketPath(op, name)

SpecPath == InitPath /\ [][NextPath]_vars

\* ------------------------------------------------------------- listing
\* Keys, entry names, seek keys and patterns are strings, here sequences of
\* characters; Alphabet lists the characters of keys in byte order.
Alphabet == <<"-", ".", "/", "a", "b", "c">>
Rank(c) == CHOOSE i \in 1 .. Len(Alphabet) : Alphabet[i] = c

\* strings.Compare(x, y) < 0
RECURSIVE StrLess(_, _)
StrLess(x, y) ==
    IF y = <<>> THEN FALSE
    ELSE IF x = <<>> THEN TRUE
    ELSE IF Head(x) # Head(y) THEN Rank(Head(x)) < Rank(Head(y))
    ELSE StrLess(Tail(x), Tail(y))

\* strings.HasPrefix
HasPrefix(s, p) == Len(p) <= Len(s) /\ SubSeq(s, 1, Len(p)) = p
\* the index of the first slash of s, 0 when it has none
IndexSlash(s) ==
    IF \E i \in 1 .. Len(s) : s[i] = "/"
    THEN CHOOSE i \in 1 .. Len(s) : s[i] = "/" /\ \A j \in 1 .. i - 1 : s[j] # "/"
    ELSE 0
\* s without its trailing slashes
RECURSIVE TrimSlash(_)
TrimSlash(s) ==
    IF s # <<>> /\ s[Len(s)] = "/" THEN TrimSlash(SubSeq(s, 1, Len(s) - 1)) ELSE s
\* path.Base of a key: its last element, trailing slashes dropped
RECURSIVE Base(_)
BaseAfter(t, i) == IF i = 0 THEN t ELSE Base(SubSeq(t, i + 1, Len(t)))
BaseTrimmed(t) == BaseAfter(t, IndexSlash(t))
Base(key) ==
    IF key = <<>> THEN <<".">>
    ELSE IF TrimSlash(key) = <<>> THEN <<"/">>
    ELSE BaseTrimmed(TrimSlash(key))
\* the key of a cleaned valid path, its elements joined by slashes (the
\* elements of the paths drawn here are one character long)
RECURSIVE ToKey(_)
ToKey(name) ==
    IF Len(name) = 1 THEN <<name[1]>>
    ELSE <<name[1], "/">> \o ToKey(Tail(name))

\* the keys a bucket may hold
KeyUniverse == {<<"a">>, <<"b">>, <<"b", "-">>, <<"b", "/">>,
                <<"b", "/", "a">>, <<"b", "/", "c">>}
\* the most entries the server returns in one page (1000 for S3)
PageSize == 2

\* the entry the server lists for a key under a prefix: the key itself, or
\* the common prefix up to the first delimiter after the prefix
ServerEntryAt(key, prefix, i) ==
    IF i = 0 THEN [key |-> key, dir |-> FALSE]
    ELSE [key |-> SubSeq(key, 1, Len(prefix) + i), dir |-> TRUE]
ServerEntry(key, prefix) ==
    ServerEntryAt(key, prefix, IndexSlash(SubSeq(key, Len(prefix) + 1, Len(key))))

\* a set of entries in ascending order of their keys
RECURSIVE SortByKey(_)
LeastFirst(S, m) == <<m>> \o SortByKey(S \ {m})
SortByKey(S) ==
    IF S = {} THEN <<>>
    ELSE LeastFirst(S, CHOOSE x \in S : \A y \in S : y = x \/ StrLess(x.key, y.key))

\* all the entries of a listing: the keys under the prefix and after the
\* start-after key, grouped by the delimiter, in key order
ServerEntries(keys, prefix, after) ==
    SortByKey({ServerEntry(k, prefix) :
                  k \in {x \in keys : /\ HasPrefix(x, prefix)
                                      /\ after = <<>> \/ StrLess(after, x)}})

\* a request the client sends: a listing, or a HEAD/GET of an object
ListRequest(prefix, after, max, tok) ==
    [kind |-> "list", key |-> prefix, after |-> after, max |-> max, token |-> tok]
ObjectRequest(key) ==
    [kind |-> "object", key |-> key, after |-> <<>>, max |-> 0, token |-> 0]

\* ListObjectsV2: one page of the listing, from the entry the continuation
\* token stands for (the number of entries of the pages before it)
PageLimit(max) == IF max > 0 /\ max < PageSize THEN max ELSE PageSize
PageEnd(n, tok, limit) == IF tok + limit < n THEN tok + limit ELSE n
PageTo(all, tok, last) ==
    [Contents |-> SelectSeq(SubSeq(all, tok + 1, last), LAMBDA e : ~e.dir),
     CommonPrefixes |-> SelectSeq(SubSeq(all, tok + 1, last), LAMBDA e : e.dir),
     IsTruncated |-> last < Len(all),
     NextToken |-> IF last < Len(all) THEN last ELSE 0]
PageFrom(all, tok, max) == PageTo(all, tok, PageEnd(Len(all), tok, PageLimit(max)))
ListPage(keys, req) ==
    PageFrom(ServerEntries(keys, req.key, req.after), req.token, req.max)
NoPage == [Contents |-> <<>>, CommonPrefixes |-> <<>>, IsTruncated |-> FALSE,
           NextToken |-> 0]

\* Prefix.join
join(path, extra) ==
    IF path = Dot \/ path = <<>> THEN extra
    ELSE IF extra = <<>> THEN TrimSlash(path)
    ELSE TrimSlash(path) \o <<"/">> \o extra
\* the prefix parameter of a listing: the path of the Prefix, a slash at its
\* end, then the literal prefix of the pattern
ListPrefix(path, prefix) ==
    (IF path = Dot \/ path = <<>> THEN <<>> ELSE TrimSlash(path) \o <<"/">>)
        \o prefix
\* a seek that accepts every prefix
SeekRejected_Never(seek, prefix) == FALSE
\* Prefix.list rejects a seek that is below the listing prefix or does not
\* begin with it
SeekRejected(seek, prefix) ==
    seek # <<>> /\ (StrLess(seek, prefix) \/ ~HasPrefix(seek, prefix))

\* Prefix.list: one listing request; ok says whether the request is answered
Answered(req, ok) ==
    IF ok THEN [err |-> "nil", sent |-> <<req>>, page |-> ListPage(objects, req)]
    ELSE [err |-> "request failed", sent |-> <<req>>, page |-> NoPage]
list(path, n, tok, seek, prefix, ok) ==
    IF SeekRejected(seek, prefix)
    THEN [err |-> "seek not compatible with prefix", sent |-> <<>>, page |-> NoPage]
    ELSE Answered(ListRequest(ListPrefix(path, prefix),
                              IF seek # <<>> THEN join(path, seek) ELSE <<>>,
                              IF n > 0 THEN n ELSE 0, tok), ok)

\* glob patterns: literal characters, "*" and a "[" that opens no class
MetaChars == {"*", "?", "\\", "["}
\* splitMeta: the literal prefix of a pattern, up to its first meta-character
RECURSIVE splitMeta(_)
splitMeta(pattern) ==
    IF pattern = <<>> \/ Head(pattern) \in MetaChars THEN <<>>
    ELSE <<Head(pattern)>> \o splitMeta(Tail(pattern))
\* path.Match reports ErrBadPattern
BadPattern(pattern) == \E i \in 1 .. Len(pattern) : pattern[i] = "["
\* path.Match for a well-formed pattern of literals and "*"
RECURSIVE Match(_, _)
Match(pattern, name) ==
    IF pattern = <<>> THEN name = <<>>
    ELSE IF Head(pattern) = "*"
    THEN \E i \in 0 .. Len(name) :
            /\ \A j \in 1 .. i : name[j] # "/"
            /\ Match(Tail(pattern), SubSeq(name, i + 1, Len(name)))
    ELSE /\ name # <<>>
         /\ Head(name) = Head(pattern)
         /\ Match(Tail(pattern), Tail(name))
\* patmatch
patmatch(pattern, name) == pattern = <<>> \/ Match(pattern, name)

\* an ignoreKey that keeps the keys named "." and ".."
ignoreKey_KeepDots(key, dirOK) ==
    \/ key = <<>>
    \/ ~dirOK /\ key[Len(key)] = "/"
\* ignoreKey
ignoreKey(key, dirOK) ==
    \/ key = <<>>
    \/ ~dirOK /\ key[Len(key)] = "/"
    \/ Base(key) \in {<<".">>, <<".", ".">>}

\* a directory entry: a File or a Prefix, with the last element as its name
DirEntry(e) == [name |-> Base(e.key), dir |-> e.dir, key |-> e.key]
\* slices.SortFunc by name
RECURSIVE SortByName(_)
LeastNameFirst(d, i) ==
    <<d[i]>> \o SortByName(SubSeq(d, 1, i - 1) \o SubSeq(d, i + 1, Len(d)))
SortByName(d) ==
    IF d = <<>> THEN <<>>
    ELSE LeastNameFirst(d, CHOOSE i \in 1 .. Len(d) :
                              /\ \A j \in 1 .. Len(d) : ~StrLess(d[j].name, d[i].name)
                              /\ \A j \in 1 .. i - 1 : d[j].name # d[i].name)

\* Prefix.readDirAt: one page of entries, those to ignore and those the
\* pattern does not match left out, sorted by name
Candidates(files, dirs) ==
    [i \in 1 .. Len(files) + Len(dirs) |->
        DirEntry(IF i <= Len(files) THEN files[i] ELSE dirs[i - Len(files)])]
PageEntries(page) ==
    Candidates(SelectSeq(page.Contents, LAMBDA e : ~ignoreKey(e.key, FALSE)),
               SelectSeq(page.CommonPrefixes, LAMBDA e : ~ignoreKey(e.key, TRUE)))
Matched(r, cand, pattern) ==
    IF r.err # "nil"
    THEN [d |-> <<>>, next |-> 0, err |-> r.err, sent |-> r.sent]
    ELSE IF pattern # <<>> /\ BadPattern(pattern) /\ cand # <<>>
    THEN [d |-> <<>>, next |-> 0, err |-> "ErrBadPattern", sent |-> r.sent]
    ELSE [d |-> SortByName(SelectSeq(cand, LAMBDA e : patmatch(pattern, e.name))),
          next |-> r.page.NextToken,
          err |-> IF r.page.IsTruncated THEN "nil" ELSE "EOF",
          sent |-> r.sent]
Listed(r, pattern) == Matched(r, PageEntries(r.page), pattern)
readDirAt(path, n, tok, seek, pattern, ok) ==
    Listed(list(path, n, tok, seek, splitMeta(pattern), ok), pattern)

\* ------------------------------------------------------------- Bucket and Prefix
\* the paths given to the calls of a Bucket
DirNames == {<<".">>, <<"a">>, <<"a", "">>, <<"b">>, <<"b", "">>, <<"c">>,
             <<"b", "a">>, <<"..">>}
\* the directories, the seek keys and the patterns given to VisitDir
VisitNames == {<<".">>, <<"b">>, <<"c">>, <<"..">>}
Seeks == {<<>>, <<"a">>, <<"b">>, <<"b", "-">>}
Patterns == {<<>>, <<"*">>, <<"b">>, <<"b", "*">>, <<"[">>}
\* the counts given to ReadDir
Counts == {-1, 0, 1, 2}
\* the most requests of one call, and the request of a call that gets no
\* answer (0: every request is answered)
MaxRequests == 2
Failures == 0 .. MaxRequests
\* the most calls of a walk callback, and what the callback does: it returns
\* nil, but res at its call number at (0: always nil)
MaxWalked == 3
Plans == {[at |-> 0, res |-> "nil"]} \cup
         [at : 1 .. MaxWalked, res : {"SkipAll", "callback error"}]

\* the path of a directory with the slash at its end
WithSlash(path) == IF path[Len(path)] = "/" THEN path ELSE path \o <<"/">>

\* the path of the Prefix that Bucket.ReadDir and Bucket.VisitDir list
PrefixOf(name) ==
    IF Clean(name) = Dot THEN Dot ELSE ToKey(Clean(name)) \o <<"/">>

\* Open(key, bucket, object, contents): the object's File when it exists
OpenObject(key, ok) ==
    [sent |-> <<ObjectRequest(key)>>,
     err |-> IF ~ok THEN "request failed"
             ELSE IF key \in objects THEN "nil" ELSE "ErrNotExist"]

\* a directory that exists whatever the listing holds
Exists_Always(page) == TRUE
\* Prefix.openDir: a directory exists when its listing holds anything at all
Exists(page) == ~(page.Contents = <<>> /\ page.CommonPrefixes = <<>>)
\* Prefix.openDir
Probed(path, r) ==
    IF r.err # "nil" THEN [err |-> r.err, path |-> <<>>, sent |-> r.sent]
    ELSE IF ~Exists(r.page)
    THEN [err |-> "ErrNotExist", path |-> <<>>, sent |-> r.sent]
    ELSE [err |-> "nil", path |-> WithSlash(path), sent |-> r.sent]
openDir(path, ok) ==
    IF path = <<>> \/ path = Dot
    THEN [err |-> "nil", path |-> path, sent |-> <<>>]
    ELSE Probed(path, list(path, 1, 0, <<>>, <<>>, ok))

\* a Bucket with its objects, no Prefix opened yet
InitBucket ==
    /\ NoUploader
    /\ NoFile
    /\ objects \in SUBSET KeyUniverse
    /\ Path = <<>> /\ token = 0 /\ dirEOF = FALSE
    /\ dret = NoDirCall /\ pages = NoPages
    /\ retry = NoRetry
    /\ ureq = [built |-> TRUE]

\* the Prefix a call returns replaces the one held
Holds(path) == Path' = path /\ token' = 0 /\ dirEOF' = FALSE /\ pages' = NoPages
DirCalled(op, arg, kind, entries, err, sent) ==
    dret' = [op |-> op, arg |-> arg, kind |-> kind, entries |-> entries,
             err |-> err, sent |-> sent, eof |-> dirEOF]
nobucket == <<objects, retry, ureq, filevars, uploadervars, ctxDone>>

\* Bucket.Open; fail is the request that gets no answer
OpenedKey(name, first, o, d) ==
    IF ~HasSlashSuffix(name) /\ o.err # "ErrNotExist"
    THEN /\ DirCalled("Open", name, IF o.err = "nil" THEN "File" ELSE "",
                      <<>>, o.err, o.sent)
         /\ UNCHANGED <<Path, token, dirEOF, pages>>
    ELSE IF d.err # "nil"
    THEN /\ DirCalled("Open", name, "", <<>>, d.err, first \o d.sent)
         /\ UNCHANGED <<Path, token, dirEOF, pages>>
    ELSE /\ DirCalled("Open", name, "Prefix", <<>>, "nil", first \o d.sent)
         /\ Holds(d.path)
Opened(name, n, fail) ==
    IF ~ValidPath(n)
    THEN /\ DirCalled("Open", name, "", <<>>, InvalidError("Open"), <<>>)
         /\ UNCHANGED <<Path, token, dirEOF, pages>>
    ELSE IF n = Dot
    THEN DirCalled("Open", name, "Prefix", <<>>, "nil", <<>>) /\ Holds(Dot)
    ELSE OpenedKey(name,
                   IF HasSlashSuffix(name) THEN <<>> ELSE <<ObjectRequest(ToKey(n))>>,
                   OpenObject(ToKey(n), fail # 1),
                   openDir(ToKey(n), fail # (IF HasSlashSuffix(name) THEN 1 ELSE 2)))
bucketOpen(name, fail) ==
    /\ fail <= 2
    /\ Opened(name, Clean(name), fail)
    /\ UNCHANGED nobucket

\* Bucket.Sub
Subbed(name, n) ==
    IF ~ValidPath(n)
    THEN /\ DirCalled("Sub", name, "", <<>>, InvalidError("Sub"), <<>>)
         /\ UNCHANGED <<Path, token, dirEOF, pages>>
    ELSE /\ DirCalled("Sub", name, IF n = Dot THEN "Bucket" ELSE "Prefix",
                      <<>>, "nil", <<>>)
         /\ Holds(IF n = Dot THEN Dot ELSE ToKey(n) \o <<"/">>)
bucketSub(name) == Subbed(name, Clean(name)) /\ UNCHANGED nobucket

\* a ReadDir that lists again after the end of the directory
AtEnd_Never(eof) == FALSE
\* Prefix.ReadDir returns at once when the end of the directory was reached
AtEnd(eof) == eof
\* Prefix.ReadDir on a Prefix with the given path, token and dirEOF: the
\* entries and error returned, the requests sent, the token and dirEOF left
EOFAsNil(r, n) ==
    IF r.err = "EOF" /\ (r.d # <<>> \/ n < 0) THEN "nil" ELSE r.err
ReadPage(r, tok, err) ==
    IF err # "nil"
    THEN [d |-> <<>>, err |-> err, sent |-> r.sent, token |-> tok,
          eof |-> r.err = "EOF"]
    ELSE [d |-> r.d, err |-> "nil", sent |-> r.sent, token |-> r.next,
          eof |-> r.err = "EOF"]
ReadNext(r, tok, n) == ReadPage(r, tok, EOFAsNil(r, n))
ReadDir(path, tok, eof, n, ok) ==
    IF AtEnd(eof)
    THEN [d |-> <<>>, err |-> "EOF", sent |-> <<>>, token |-> tok, eof |-> eof]
    ELSE ReadNext(readDirAt(path, n, tok, <<>>, <<>>, ok), tok, n)

\* Prefix.ReadDir(n) on the Prefix held
Paged(n, r) ==
    IF r.err # "nil" THEN pages
    ELSE IF pages.same /\ (pages.n = n \/ pages = NoPages)
    THEN [n |-> n, same |-> TRUE, d |-> pages.d \o r.d]
    ELSE [n |-> pages.n, same |-> FALSE, d |-> <<>>]
Read(n, r) ==
    /\ DirCalled("ReadDir", n, "", r.d, r.err, r.sent)
    /\ token' = r.token
    /\ dirEOF' = r.eof
    /\ pages' = Paged(n, r)
prefixReadDir(n, fail) ==
    /\ Path # <<>>
    /\ fail <= 1
    /\ Read(n, ReadDir(Path, token, dirEOF, n, fail # 1))
    /\ UNCHANGED <<Path, nobucket>>

\* Bucket.ReadDir
ReadAll(name, n, r, d) ==
    IF ~ValidPath(n)
    THEN DirCalled("Bucket.ReadDir", name, "", <<>>, InvalidError("ReadDir"), <<>>)
    ELSE IF n = Dot \/ r.err # "nil" \/ r.d # <<>>
    THEN DirCalled("Bucket.ReadDir", name, "", r.d, r.err, r.sent)
    ELSE DirCalled("Bucket.ReadDir", name, "", <<>>, d.err, r.sent \o d.sent)
bucketReadDir(name, fail) ==
    /\ fail <= 2
    /\ ReadAll(name, Clean(name),
               ReadDir(PrefixOf(name), 0, FALSE, -1, fail # 1),
               openDir(PrefixOf(name), fail # 2))
    /\ UNCHANGED <<Path, token, dirEOF, pages, nobucket>>

\* a visit that goes on after the callback returned an error
Stops_Never(err) == FALSE
\* Prefix.VisitDir returns the first error of its callback
Stops(err) == err # "nil"
\* what the callback returns at its call number k
Walk(plan, k) == IF plan.at = k THEN plan.res ELSE "nil"
\* the calls of the callback for the entries d, after walked calls: the
\* entries passed and the error that ended the calls
RECURSIVE WalkEntries(_, _, _)
WalkOn(d, now, plan, err) ==
    IF Stops(err) THEN [walked |-> now, err |-> err]
    ELSE WalkEntries(Tail(d), now, plan)
WalkNext(d, now, plan) == WalkOn(d, now, plan, Walk(plan, Len(now)))
WalkEntries(d, walked, plan) ==
    IF d = <<>> THEN [walked |-> walked, err |-> "nil"]
    ELSE WalkNext(d, Append(walked, Head(d)), plan)
\* the loop of Prefix.VisitDir over the pages of the listing
RECURSIVE VisitPages(_, _, _, _, _, _, _, _)
\* the entries of a page without the one named as the seek key
AfterSeek(d, seek) == IF d # <<>> /\ d[1].name = seek THEN Tail(d) ELSE d
PageWalked(path, seek, pattern, plan, fail, sent, r, w) ==
    IF w.err # "nil" \/ r.err = "EOF"
    THEN [walked |-> w.walked, err |-> w.err, sent |-> sent \o r.sent]
    ELSE VisitPages(path, r.next, seek, pattern, plan, fail, w.walked,
                    sent \o r.sent)
PageVisited(path, seek, pattern, plan, fail, walked, sent, r) ==
    IF r.err \notin {"nil", "EOF"}
    THEN [walked |-> walked, err |-> r.err, sent |-> sent \o r.sent]
    ELSE PageWalked(path, seek, pattern, plan, fail, sent, r,
                    WalkEntries(AfterSeek(r.d, seek), walked, plan))
VisitPages(path, tok, seek, pattern, plan, fail, walked, sent) ==
    PageVisited(path, seek, pattern, plan, fail, walked, sent,
                readDirAt(path, -1, tok, seek, pattern, fail # Len(sent) + 1))

\* Bucket.VisitDir, which keeps nothing from one call to the next: the first
\* call on a bucket stands for every call
VisitCalled(arg, v) == DirCalled("VisitDir", arg, "", v.walked, v.err, v.sent)
bucketVisitDir(name, seek, pattern, plan, fail) ==
    /\ dret = NoDirCall
    /\ IF ~ValidPath(Clean(name))
       THEN DirCalled("VisitDir", <<name, seek, pattern, plan, fail>>, "",
                      <<>>, InvalidError("VisitDir"), <<>>)
       ELSE VisitCalled(<<name, seek, pattern, plan, fail>>,
                        VisitPages(PrefixOf(name), 0, seek, pattern, plan, fail,
                                   <<>>, <<>>))
    /\ UNCHANGED <<Path, token, dirEOF, pages, nobucket>>

NextBucket ==
    \/ \E name \in DirNames, fail \in Failures : bucketOpen(name, fail)
    \/ \E name \in DirNames : bucketSub(name)
    \/ \E n \in Counts, fail \in Failures : prefixReadDir(n, fail)
    \/ \E name \in DirNames, fail \in Failures : bucketReadDir(name, fail)

SpecBucket == InitBucket /\ [][NextBucket]_vars

\* the walker ends without an error when its callback returns fs.SkipAll
WalkError(err) == IF err = "SkipAll" THEN "nil" ELSE err
\* fsutil.WalkDir over one directory of the bucket: a VisitDir whose callback
\* is the callback of the walk
WalkCalled(arg, v) ==
    DirCalled("WalkDir", arg, "", v.walked, WalkError(v.err), v.sent)
walkDir(name, seek, pattern, plan, fail) ==
    /\ dret = NoDirCall
    /\ plan.res # "callback error"
    /\ IF ~ValidPath(Clean(name))
       THEN DirCalled("WalkDir", <<name, seek, pattern, plan, fail>>, "",
                      <<>>, InvalidError("VisitDir"), <<>>)
       ELSE WalkCalled(<<name, seek, pattern, plan, fail>>,
                       VisitPages(PrefixOf(name), 0, seek, pattern, plan, fail,
                                  <<>>, <<>>))
    /\ UNCHANGED <<Path, token, dirEOF, pages, nobucket>>

NextVisit ==
    \E name \in VisitNames, seek \in Seeks, pattern \in Patterns,
       plan \in Plans, fail \in Failures :
        \/ bucketVisitDir(name, seek, pattern, plan, fail)
        \/ walkDir(name, seek, pattern, plan, fail)

SpecVisit == InitBucket /\ [][NextVisit]_vars

\* ------------------------------------------------------------- one page
\* the keys of a bucket whose pages hold entries to ignore, the Prefixes
\* readDirAt is called on, and the tokens, seeks and counts it is given
PageKeys == {<<"a">>, <<"b">>, <<"b", "-">>, <<"b", "/">>, <<"b", "/", "a">>,
             <<"b", "/", ".">>, <<"b", "/", ".", ".">>, <<".">>, <<"/", "a">>}
PagePaths == {Dot, <<"b", "/">>}
PageTokens == 0 .. PageSize
PageSeeks == {<<>>, <<"a">>}
PageCounts == {-1, 1}

\* a Prefix of a bucket with its keys
InitPage ==
    /\ NoUploader
    /\ NoFile
    /\ objects \in SUBSET PageKeys
    /\ Path \in PagePaths /\ token = 0 /\ dirEOF = FALSE
    /\ dret = NoDirCall /\ pages = NoPages
    /\ retry = NoRetry
    /\ ureq = [built |-> TRUE]

\* one call of Prefix.readDirAt(n, token, seek, pattern) on the Prefix
PageCalled(arg, r) == DirCalled("readDirAt", arg, "", r.d, r.err, r.sent)
readDirAtCall(n, tok, seek, pattern, ok) ==
    /\ dret = NoDirCall
    /\ PageCalled(<<n, tok, seek, pattern>>,
                  readDirAt(Path, n, tok, seek, pattern, ok))
    /\ UNCHANGED <<Path, token, dirEOF, pages, nobucket>>

NextPage ==
    \E n \in PageCounts, tok \in PageTokens, seek \in PageSeeks,
       pattern \in Patterns, ok \in BOOLEAN :
        readDirAtCall(n, tok, seek, pattern, ok)

SpecPage == InitPage /\ [][NextPage]_vars

\* ------------------------------------------------------------- retry wrapper
\* the methods of the client's requests, and what one attempt may end with:
\* a response with its status, a resettable transport error (a connection
\* reset, an unexpected EOF), or another transport error
Methods == {"GET", "HEAD", "PUT", "DELETE", "POST"}
Attempts == {"200", "404", "500", "502", "503", "504", "reset", "refused"}
\* the failures after which the wrapper sends the request again
Retryable(outcome) == outcome \in {"500", "502", "503", "504", "reset"}

\* a call of flakyDo with its request, nothing sent yet
InitRetry ==
    /\ NoUploader
    /\ NoFile
    /\ objects = {} /\ Path = <<>> /\ token = 0 /\ dirEOF = FALSE
    /\ dret = NoDirCall /\ pages = NoPages
    /\ retry \in [method : Methods, tried : {<<>>}, done : {FALSE}, result : {""}]
    /\ ureq = [built |-> TRUE]

\* one attempt of flakyDo: the request is sent and ends with outcome; the
\* call returns it unless the method is idempotent, the failure is one to
\* retry and the budget is not used up
retryAttempt(outcome) ==
    LET tried == Append(retry.tried, outcome)
        again == /\ Idempotent(retry.method)
                 /\ Retryable(outcome)
                 /\ Len(tried) < MaxAttempts
    IN /\ ~retry.done
       /\ retry' = [retry EXCEPT !.tried = tried, !.done = ~again,
                                  !.result = IF again THEN "" ELSE outcome]
       /\ UNCHANGED <<dirvars, ureq, filevars, uploadervars, ctxDone>>

NextRetry == \E outcome \in Attempts : retryAttempt(outcome)

SpecRetry == InitRetry /\ [][NextRetry]_vars

\* ------------------------------------------------------------- URLs
\* a bucket name is the sequence of its labels between dots: it holds a dot
\* when it has more than one label
BucketNames == {<<"bucket">>, <<"my", "bucket">>, <<"a", "b", "c">>}
\* the host of the base URI of the signing key, "" when none is set
BaseHosts == {"", "custom.endpoint.com"}
Regions == {"us-east-1", "eu-west-1"}
ObjectKeys == {"k1", "k2", "dir/k3"}
UploadMethods == {"POST", "PUT", "DELETE"}
HasDot(bucket) == Len(bucket) > 1

\* a URL in the virtual-hosted style: the bucket leads the host name
VirtualHosted(endpoint, bucket, rest) ==
    [host |-> [bucket |-> bucket, endpoint |-> endpoint],
     path |-> [bucket |-> <<>>, rest |-> rest]]
\* a URL in the path style: the bucket leads the path
PathStyle(endpoint, bucket, rest) ==
    [host |-> [bucket |-> <<>>, endpoint |-> endpoint],
     path |-> [bucket |-> bucket, rest |-> rest]]
\* the S3 endpoint of a region
Endpoint(region) == <<"s3", region, "amazonaws", "com">>

\* uri and rawURI: the URL of an object and of a listing
uri(base, region, bucket, rest) ==
    IF base # "" THEN PathStyle(<<base>>, bucket, rest)
    ELSE IF HasDot(bucket) THEN PathStyle(Endpoint(region), bucket, rest)
    ELSE VirtualHosted(Endpoint(region), bucket, rest)
\* uploader.req and uploader.reqWithContext, with the host that Start sets
req(base, region, bucket, rest) ==
    IF base = "" THEN VirtualHosted(Endpoint(region), bucket, rest)
    ELSE PathStyle(<<base>>, bucket, rest)

\* a signing key with its base URI and region, and a bucket
InitURL ==
    /\ NoUploader
    /\ NoFile
    /\ objects = {} /\ Path = <<>> /\ token = 0 /\ dirEOF = FALSE
    /\ dret = NoDirCall /\ pages = NoPages
    /\ retry = NoRetry
    /\ ureq \in [built : {FALSE}, base : BaseHosts, region : Regions,
                  bucket : BucketNames]

Built(kind, method, url) ==
    /\ ureq' = [built |-> TRUE, base |-> ureq.base, region |-> ureq.region,
                bucket |-> ureq.bucket, kind |-> kind, method |-> method,
                url |-> url]
    /\ UNCHANGED <<dirvars, retry, filevars, uploadervars, ctxDone>>
\* the request of an object: Write, Delete, Open, OpenRange
objectRequest(method, key) ==
    Built("object", method, uri(ureq.base, ureq.region, ureq.bucket, key))
\* the request of a listing: Prefix.list
listRequest ==
    Built("listing", "GET", uri(ureq.base, ureq.region, ureq.bucket, "?list-type=2"))
\* a request of a multipart upload: Start, Upload, CopyFrom, Close, Abort
uploadRequest(method, key) ==
    Built("upload", method, req(ureq.base, ureq.region, ureq.bucket, key))

NextURL ==
    \/ \E method \in {"GET", "HEAD", "PUT", "DELETE"}, key \in ObjectKeys :
            objectRequest(method, key)
    \/ listRequest
    \/ \E method \in UploadMethods, key \in ObjectKeys : uploadRequest(method, key)

SpecURL == InitURL /\ [][NextURL]_vars

\* ------------------------------------------------------------- properties
\* the requests of one kind sent so far
CountOf(r) == CopiesIn(r, requests)
Initiate == Req("POST", "uploads", 0)
Complete == Req("POST", "uploadId", 0)
PutOf(num) == Req("PUT", "partNumber", num)
\* this step sends the Complete request
SendsComplete == CopiesIn(Complete, requests') > CopiesIn(Complete, requests)
\* this step is the return of a call of op
Returns(op) == ret' # ret /\ ret'.op = op
\* the (Num, ETag) pairs of completed-part records, with their multiplicity
Manifested(ps) == BagOfSeq(CompleteBody(ps))
Recorded(bag) == LET S == BagToSet(bag)
                     P == {[Num |-> x.Num, ETag |-> x.ETag] : x \in S}
                 IN [p \in P |-> CopiesIn([Num |-> p.Num, ETag |-> p.ETag,
                        size |-> (CHOOSE x \in S : x.Num = p.Num /\ x.ETag = p.ETag).size], bag)]
NoCopyRunning == \A c \in Slots : copies[c].pc = "none"

\* C1 (as the code has it): a Close that follows a failed background copy of
\* the same upload returns a non-nil error and leaves finished as it was
C1_CloseFailsAfterFailedCopy ==
    [][(Returns("Close") /\ copyFailed) => (ret'.res # NoErr /\ finished' = finished)]_vars

\* C1 (as stated): a Close that follows a failed Upload or a failed
\* background copy of the same upload returns a non-nil error and leaves
\* finished as it was
C1_CloseFailsAfterAnyFailure ==
    [][(Returns("Close") /\ (opFailed \/ copyFailed))
         => (ret'.res # NoErr /\ finished' = finished)]_vars

\* Close has returned the error of a failed background copy
C1_Witness ==
    /\ ret.op = "Close" /\ ret.res.k = "err" /\ ret.res = asyncerr
    /\ copyFailed /\ started /\ ~finished

\* C2: after successful Uploads of distinct part numbers only, in any order,
\* the manifest Close(nil) sends lists exactly those parts in ascending order
\* of part number, and the object a successful Close leaves is their bodies
\* in that order
C2_ManifestAscending ==
    [][(SendsComplete /\ onlyUploads) =>
         /\ IsStrictlyAscending(manifest')
         /\ {manifest'[i].Num : i \in 1 .. Len(manifest')} = Range(accepted)
         /\ Manifested(parts') = Recorded(okparts)
         /\ Returns("Close") /\ ret'.res = NoErr =>
              /\ object'.exists
              /\ Len(object'.content) = Len(manifest')
              /\ \A i \in 1 .. Len(manifest') :
                   /\ generateETag(object'.content[i]) = manifest'[i].ETag
                   /\ object'.content[i] \in {a[2] : a \in {b \in UploadArgs :
                                                      b[1] = manifest'[i].Num}}]_vars

\* Close(nil) has succeeded after part 2 was uploaded before part 1
C2_Witness ==
    /\ ret.op = "Close" /\ ret.res = NoErr /\ finished /\ onlyUploads
    /\ accepted = <<2, 1>>
    /\ [i \in 1 .. Len(manifest) |-> manifest[i].Num] = <<1, 2>>
    /\ object.content = <<PartBody(1), PartBody(2)>>

\* the pieces of content are the bytes 0 .. sz - 1 of the source, in order
RECURSIVE LenUpTo(_, _)
LenUpTo(content, i) == IF i = 0 THEN 0 ELSE LenUpTo(content, i - 1) + content[i].len
IsSourcePrefix(content, sz) ==
    /\ \A i \in 1 .. Len(content) :
         content[i].tag = "r" /\ content[i].lo = LenUpTo(content, i - 1)
    /\ LenUpTo(content, Len(content)) = sz
\* the part numbers of the full parts and of the tail of the source
FullParts == 1 .. nonfinal(size)
TailParts == IF tailsize(size) > 0 THEN {nonfinal(size) + 1} ELSE {}
\* what a successful WriteFrom has sent and stored, each part with at most
\* most PUT requests
WriteFromSent(most) ==
    /\ CountOf(Initiate) = 1 /\ CountOf(Complete) = 1
    /\ \A num \in FullParts \cup TailParts : CountOf(PutOf(num)) \in 1 .. most
    /\ BagToSet(requests) = {Initiate, Complete} \cup {PutOf(num) : num \in FullParts \cup TailParts}
    /\ object.exists /\ IsSourcePrefix(object.content, size)

\* C3 (as the code has it): the first request of a WriteFrom is the
\* initiate, sent once; every PUT follows it and precedes the one Complete
\* request, which is sent when every full part and the tail have been PUT; a
\* WriteFrom that returns nil has sent one initiate, one or more PUTs for each
\* of the floor(size/partSize) full parts and for the tail when there is one
\* (a PUT that failed transiently is sent again), and one Complete, and the
\* object is source[0:size]
C3_WriteFromRequests ==
    [][/\ requests' # requests =>
            IF CopiesIn(Initiate, requests') > CountOf(Initiate)
            THEN requests = EmptyBag
            ELSE CountOf(Initiate) = 1 /\ CountOf(Complete) = 0
       /\ SendsComplete =>
            \A num \in FullParts \cup TailParts : CountOf(PutOf(num)) >= 1
       /\ (ret' # ret /\ ret'.op = "WriteFrom" /\ ret'.res = NoErr)
            => WriteFromSent(MaxAttempts)']_vars

\* C3 (as stated): a WriteFrom that returns nil has sent exactly one PUT for
\* each full part and for the tail
C3_ExactlyOnePutPerPart ==
    (Returned /\ ret.res = NoErr) => WriteFromSent(1)

\* WriteFrom has returned nil for a source of two full parts and a tail, after
\* a PUT of part 1 was sent twice
C3_Witness ==
    /\ Returned /\ ret.res = NoErr
    /\ size = 2 * MinPartSize + TailLen
    /\ CountOf(PutOf(1)) = 2 /\ CountOf(PutOf(3)) = 1
    /\ object.content = <<Source(0, MinPartSize), Source(MinPartSize, MinPartSize),
                          Source(2 * MinPartSize, TailLen)>>

\* C4 (as stated): when Abort has returned nil on a started, unfinished
\* uploader, every field is as after construction
C4_AbortResetsAll ==
    (ret.op = "Abort" /\ ret.res = NoErr /\ ret.st /\ ~ret.fin) =>
        /\ ~started /\ ~finished /\ id = 0 /\ part = 0
        /\ parts = <<>> /\ maxpart = 0 /\ asyncerr = NoErr

C6_CompleteAfterCopies ==
    [][SendsComplete =>
         /\ bg = 0 /\ NoCopyRunning
         /\ ~copyFailed /\ asyncerr = NoErr
         /\ manifest' = CompleteBody(parts')
         /\ Manifested(parts') = Recorded(okparts)]_vars

\* Close has sent a Complete request whose manifest holds the part of a
\* background copy
C6_Witness ==
    /\ ret.op = "Close" /\ CountOf(Complete) > 0 /\ closeCalls = 1
    /\ \E i \in 1 .. Len(manifest) : manifest[i].ETag[2] = "src"

\* C7 (as stated): whenever no call and no copy is in progress on a started
\* upload, the completed-part list holds exactly one record for each part a
\* call of this upload has stored, and maxpart is the largest part number
\* accepted (0 when none was)
C7_RecordsAndMaxpart ==
    (started /\ Quiet /\ NoCopyRunning) =>
        /\ BagOfSeq(parts) = okparts
        /\ maxpart = Max(Range(accepted) \cup {0})

\* C8: Upload, CopyFrom and Close called on an uploader that is not started
\* panic, send no request and change no field
C8_PanicsBeforeStart ==
    [][(/\ ~started
        /\ \/ \E t \in Callers, a \in UploadArgs : UploadCall(t, a[1], a[2])
           \/ \E t \in Callers, a \in CopyArgs : CopyFromCall(t, a[1], a[2])
           \/ \E final \in Finals : CloseCall(final))
         => /\ ret' # ret /\ ret'.res.k = "panic"
            /\ ret'.op \in {"Upload", "CopyFrom", "Close"}
            /\ requests' = requests /\ uploads' = uploads
            /\ UNCHANGED <<uvars, lock, pc, loc, copies>>]_vars

\* Close has panicked on an uploader that was not started, and nothing has
\* been sent
C8_Witness ==
    /\ ret.op = "Close" /\ ret.res.k = "panic" /\ ~ret.st /\ ~started
    /\ requests = EmptyBag

\* C9 (as the code has it): Start panics exactly when the uploader is
\* started, that is when an earlier Start succeeded and no Abort has
\* succeeded since; a Start that follows a failed Start does not panic
C9_StartPanicsWhenStarted ==
    [][Start => /\ ret'.op = "Start" /\ ret' # ret
                /\ (ret'.res.k = "panic") <=> started
                /\ started => (requests' = requests /\ UNCHANGED uvars)]_vars

\* C9 (as stated): a Start that follows another Start with no successful
\* Abort in between panics
C9_SecondStartPanics ==
    [][(Start /\ startCalls >= 1) => ret'.res.k = "panic"]_vars

\* a second Start has panicked
C9_Witness ==
    ret.op = "Start" /\ ret.res.k = "panic" /\ startCalls = 2 /\ started

\* C10 (as the code has it): on a started uploader Close panics exactly when
\* an earlier Close of that upload returned nil (finished); a Close that
\* follows a failed Close does not panic
C10_ClosePanicsWhenFinished ==
    [][(started /\ \E final \in Finals : CloseCall(final))
         => /\ (Returns("Close") /\ ret'.res.k = "panic") <=> finished
            /\ finished => (requests' = requests /\ UNCHANGED uvars)]_vars

\* C10 (as stated): a Close that follows another Close of the same upload
\* panics
C10_SecondClosePanics ==
    [][(started /\ closeCalls >= 1 /\ \E final \in Finals : CloseCall(final))
         => (Returns("Close") /\ ret'.res.k = "panic")]_vars

\* a second Close has panicked after the first returned nil
C10_Witness ==
    ret.op = "Close" /\ ret.res.k = "panic" /\ closeCalls = 2 /\ finished

\* C11: an Abort called on an uploader that is not started, or that has
\* finished, returns nil at once, sends no request and changes no field of
\* the uploader (so that any number of such calls in a row leave what one
\* leaves)
C11_AbortNoOp ==
    [][(AbortCall /\ (~started \/ finished))
         => /\ Returns("Abort") /\ ret'.res = NoErr
            /\ requests' = requests /\ uploads' = uploads /\ object' = object
            /\ UNCHANGED <<uvars, lock, pc, loc, copies>>]_vars

\* Abort has returned nil on an uploader whose Close had succeeded, and the
\* uploader is still finished
C11_Witness ==
    /\ ret.op = "Abort" /\ ret.res = NoErr /\ ret.st /\ ret.fin
    /\ started /\ finished /\ CountOf(Req("DELETE", "uploadId", 0)) = 0

\* the bodies shorter than MinPartSize among the parts recorded and the
\* parts the server stores for the upload are tails uploaded by Close
ShortPartsAreTails ==
    /\ \A i \in 1 .. Len(parts) :
         parts[i].size < MinPartSize => parts[i].ETag \in {generateETag(f) : f \in Finals}
    /\ \A u \in DOMAIN uploads : \A n \in DOMAIN uploads[u] :
         uploads[u][n].len < MinPartSize => uploads[u][n] \in Finals

\* C12: an Upload of fewer than MinPartSize bytes on a started uploader
\* returns an error, sends no request, records no part and leaves maxpart;
\* only the tail given to Close is ever sent or recorded with fewer than
\* MinPartSize bytes
C12_ShortUploadRejected ==
    [][/\ (started /\ \E t \in Callers, a \in UploadArgs :
                        a[2].len < MinPartSize /\ UploadCall(t, a[1], a[2]))
            => /\ Returns("Upload") /\ ret'.res.k = "err"
               /\ requests' = requests /\ uploads' = uploads
               /\ parts' = parts /\ maxpart' = maxpart /\ pc' = pc
       /\ ShortPartsAreTails']_vars

\* Upload has refused a body one byte short of MinPartSize: only the initiate
\* request was sent and nothing is recorded
C12_Witness ==
    /\ ret.op = "Upload" /\ ret.res = Err("below min part size", 0) /\ started
    /\ BagToSet(requests) = {Initiate} /\ parts = <<>> /\ maxpart = 0

\* C13 (as stated): every part number sent in an upload-part or copy-part
\* request, and every part number in the completed-part list, is between 1
\* and MaxParts
C13_PartNumbersInRange ==
    /\ \A r \in BagToSet(requests) : r.m = "PUT" => r.n \in 1 .. MaxParts
    /\ \A i \in 1 .. Len(parts) : parts[i].Num \in 1 .. MaxParts

\* C14 (as stated): an UploadFrom called with a context that is already
\* cancelled (and whose source delivers every byte asked for) returns
\* context.Canceled, and no part is uploaded, no Complete request is sent and
\* no object is created
C14_CancelledUploadFrom ==
    (ctxDone /\ Returned /\ ret.st /\ ret.res # Err("unexpected EOF", 0)) =>
        /\ ret.res = Canceled
        /\ \A r \in BagToSet(requests) : r.m # "PUT"
        /\ CountOf(Complete) = 0
        /\ ~object.exists

\* C15 (as stated): for every Mbps the number of workers UploadFrom runs
\* is at least 1 and at most 40
C15_WorkersAtMostForty ==
    nthreads # 0 => nthreads \in 1 .. MaxParallel

\* ------------------------------------------------------------- File claims
ValidWhences == {"SeekStart", "SeekCurrent", "SeekEnd"}

\* the body, when open, holds the object's bytes from File.pos on
BodyAtOffset == body.open /\ body.rest # <<>> => Head(body.rest)[2] = pos
\* the bytes a Read returned are those of one version of the object from the
\* offset the File had when Read was called
ReadReturnsRange ==
    fret.op = "Read" =>
        /\ Len(fret.data) = fret.n
        /\ \E v \in 1 .. MaxVersions :
              \A j \in 1 .. fret.n : fret.data[j] = <<v, fret.from + j - 1>>

\* C16: whenever the File's body is open, the next byte it delivers is the
\* object's byte at the File's offset; every Read that returns n bytes
\* returns the object's bytes [offset, offset+n) and advances the offset by
\* n, the Reads that open or re-open the body included
C16_ReadFollowsOffset ==
    /\ BodyAtOffset
    /\ ReadReturnsRange
    /\ fret.op = "Read" => pos = fret.from + fret.n
\* a Read at offset 1 opened a body and returned the two bytes that were left
C16_Witness ==
    /\ fret.op = "Read" /\ fret.get.sent /\ fret.from = 1 /\ fret.n = 2
    /\ pos = FileSize

\* C17: in every state Read, Seek and Close lead to, the File's offset is
\* at least 0 and at most the size of the object
C17_OffsetInRange == 0 <= pos /\ pos <= FileSize
\* C18: Seek computes the new offset from whence and offset; a new offset
\* that is negative or beyond the size is an error that leaves offset and
\* body as they were; otherwise the offset becomes the new one and an open
\* body is closed exactly when the new offset is not the old one
C18_Seek ==
    fret.op = "Seek" /\ fret.arg[2] \in ValidWhences =>
        LET off == fret.arg[1]
            whence == fret.arg[2]
            newpos == CASE whence = "SeekStart" -> off
                        [] whence = "SeekCurrent" -> fret.from + off
                        [] whence = "SeekEnd" -> FileSize + off
        IN IF newpos < 0 \/ newpos > FileSize
           THEN fret.err # "nil" /\ pos = fret.from /\ body.open = fret.open
           ELSE /\ fret.err = "nil" /\ pos = newpos
                /\ fret.open => (body.open <=> newpos = fret.from)
                /\ ~fret.open => ~body.open
\* a Seek closed the body a Read had opened, and a Seek to the offset the
\* File was at kept it
C18_Witness ==
    /\ fret.op = "Seek" /\ fret.err = "nil" /\ fret.open
    /\ \/ fret.from # pos /\ ~body.open
       \/ fret.from = pos /\ body.open /\ pos > 0

\* C19: after Close the File has no open body and its offset is 0, whether
\* or not a body was open when Close was called
C19_CloseResets == fret.op = "Close" => ~body.open /\ pos = 0

C30_AtMostMaxParts == finished => maxpart <= MaxParts

\* ------------------------------------------------------------- Bucket claims
\* C22: Open, Write, WriteFrom, OpenRange, Delete, ReadDir, Sub and VisitDir
\* clean their path and, when the cleaned path is not valid, return an error
\* matching fs.ErrInvalid without sending a request
C22_InvalidPathRejected ==
    dret.op \in PathOps /\ ~ValidPath(Clean(dret.arg)) =>
        dret.err = "ErrInvalid" /\ dret.sent = <<>>

Under(key) == {k \in objects : HasPrefix(k, key \o <<"/">>)}
\* C21: Bucket.Open(name) returns a File when name has no slash at its end and
\* the object exists, keys under name/ or not; else a Prefix when a key begins
\* with name/; else an error matching fs.ErrNotExist; a slash at the end of
\* name skips the lookup of the object, and Open(".") returns the root Prefix
\* without a request (for requests that are answered)
C21_OpenResolves ==
    dret.op = "Open" /\ ValidPath(Clean(dret.arg)) /\ dret.err # "request failed" =>
        LET key == ToKey(Clean(dret.arg))
            slash == Len(dret.arg) >= 2 /\ dret.arg[Len(dret.arg)] = ""
        IN IF Clean(dret.arg) = Dot
           THEN dret.kind = "Prefix" /\ dret.err = "nil" /\ dret.sent = <<>>
           ELSE /\ slash => \A i \in 1 .. Len(dret.sent) : dret.sent[i].kind # "object"
                /\ IF ~slash /\ key \in objects
                   THEN dret.kind = "File" /\ dret.err = "nil"
                   ELSE IF Under(key) # {}
                   THEN dret.kind = "Prefix" /\ dret.err = "nil"
                   ELSE dret.kind = "" /\ dret.err = "ErrNotExist"
\* the object b is opened as a File though keys lie under b/, and b/ as a
\* Prefix though the object b exists
C21_Witness ==
    /\ dret.op = "Open" /\ dret.err = "nil"
    /\ ToKey(Clean(dret.arg)) \in objects /\ Under(ToKey(Clean(dret.arg))) # {}
    /\ dret.kind = IF Len(dret.arg) >= 2 THEN "Prefix" ELSE "File"

\* the keys under the directory of a key that a listing shows as entries: all
\* but the key of the directory itself
Listable(key) == Under(key) \ {key \o <<"/">>}
\* C24: Bucket.ReadDir(name), name not ".", returns an error matching
\* fs.ErrNotExist when no key lies under name/, and an empty list with a nil
\* error only when the directory exists and has no entry to list;
\* ReadDir(".") on a bucket without keys returns an empty list and nil (for
\* requests that are answered)
C24_ReadDirMissing ==
    dret.op = "Bucket.ReadDir" /\ ValidPath(Clean(dret.arg))
        /\ dret.err # "request failed" =>
        LET key == ToKey(Clean(dret.arg))
        IN IF Clean(dret.arg) = Dot
           THEN objects = {} => dret.entries = <<>> /\ dret.err = "nil"
           ELSE /\ Under(key) = {} => dret.err = "ErrNotExist"
                /\ dret.entries = <<>> /\ dret.err = "nil" =>
                       Under(key) # {} /\ Listable(key) = {}
C24_Witness ==
    /\ dret.op = "Bucket.ReadDir" /\ Clean(dret.arg) # Dot
    /\ dret.entries = <<>> /\ dret.err = "nil" /\ Len(dret.sent) = 2

\* the entries of the directory of a Prefix, whatever the pages they come in
Directory(path) ==
    LET all == {ServerEntry(k, ListPrefix(path, <<>>)) :
                   k \in {x \in objects : HasPrefix(x, ListPrefix(path, <<>>))}}
    IN {DirEntry(e) : e \in {x \in all : ~ignoreKey(x.key, x.dir)}}
\* C23: Prefix.ReadDir(-1), and so Bucket.ReadDir, returns all the remaining
\* entries of the directory, over every page of the listing, and returns nil
\* and not io.EOF on the call that reaches the end
C23_ReadDirAll ==
    /\ dret.op = "Bucket.ReadDir" /\ ValidPath(Clean(dret.arg)) /\ dret.err = "nil" =>
           /\ {dret.entries[i] : i \in 1 .. Len(dret.entries)} = Directory(PrefixOf(dret.arg))
           /\ Len(dret.entries) = Cardinality(Directory(PrefixOf(dret.arg)))
    /\ dret.op = "ReadDir" /\ dret.arg < 0 /\ ~dret.eof
           /\ dret.err # "request failed" =>
           dret.err = "nil" /\ dirEOF

\* the inputs of the last VisitDir
VisitName == dret.arg[1]
VisitSeek == dret.arg[2]
VisitPattern == dret.arg[3]
VisitPlan == dret.arg[4]
\* a VisitDir of a valid directory with a well-formed pattern, all of whose
\* requests were answered
Visited ==
    /\ dret.op = "VisitDir" /\ ValidPath(Clean(VisitName))
    /\ ~BadPattern(VisitPattern) /\ dret.err # "request failed"
\* what listing the whole directory and then filtering keeps: the entries
\* whose name matches the pattern and lies strictly after the seek key
Kept ==
    {e \in Directory(PrefixOf(VisitName)) :
        /\ patmatch(VisitPattern, e.name)
        /\ VisitSeek = <<>> \/ StrLess(VisitSeek, e.name)}
\* the callback was called for exactly the entries kept, each once, in
\* ascending order of their names, and the visit returned nil
VisitedKept ==
    /\ dret.err = "nil"
    /\ {dret.entries[i] : i \in 1 .. Len(dret.entries)} = Kept
    /\ Len(dret.entries) = Cardinality(Kept)
    /\ \A i \in 1 .. Len(dret.entries) - 1 :
           ~StrLess(dret.entries[i + 1].name, dret.entries[i].name)
\* C26: for every directory, seek and pattern, Prefix.VisitDir calls the
\* callback for exactly the entries that listing and then filtering keeps,
\* each once, in ascending order of their names, over every page, and then
\* returns nil
C26_VisitEqualsFilter == Visited /\ VisitPlan.at = 0 => VisitedKept

\* the callback returned fs.SkipAll at one of its calls
Skipped ==
    /\ dret.op \in {"VisitDir", "WalkDir"} /\ ValidPath(Clean(VisitName))
    /\ VisitPlan.res = "SkipAll" /\ VisitPlan.at \in 1 .. Len(dret.entries)
C28_RetryOnlyIdempotent ==
    /\ \A i \in 1 .. Len(retry.tried) - 1 :
           /\ retry.method \in {"GET", "HEAD", "PUT", "DELETE"}
           /\ retry.tried[i] \in {"500", "502", "503", "504", "reset"}
    /\ retry.method = "POST" => Len(retry.tried) <= 1
    /\ Len(retry.tried) <= MaxAttempts
    /\ Len(retry.tried) = MaxAttempts => retry.done
    /\ retry.done /\ retry.tried # <<>> =>
           retry.result = retry.tried[Len(retry.tried)]
\* a GET answered 500 and then 200 was sent twice, and a POST answered 500 once
C28_Witness ==
    \/ retry.method = "GET" /\ retry.tried = <<"500", "200">> /\ retry.done
    \/ retry.method = "POST" /\ retry.tried = <<"500">> /\ retry.done

\* C29: every request the client builds, of an object, a listing or a
\* multipart upload, has the virtual-hosted host
\* {bucket}.s3.{region}.amazonaws.com only when the bucket holds no dot and no
\* base URI is set, and is in the path style otherwise
C29_VirtualHostedOnlyDotless ==
    ureq.built =>
        IF ureq.base = "" /\ Len(ureq.bucket) = 1
        THEN /\ ureq.url.host = [bucket |-> ureq.bucket,
                                 endpoint |-> <<"s3", ureq.region, "amazonaws", "com">>]
             /\ ureq.url.path.bucket = <<>>
        ELSE /\ ureq.url.host.bucket = <<>>
             /\ ureq.url.path.bucket = ureq.bucket

\* C39: calculatePartSize(size) is MinPartSize * 2^k for the smallest k >= 0
\* with floor(size / partSize) <= MaxParts; it is MinPartSize for every size
\* <= MinPartSize * MaxParts, sizes <= 0 included, and never below MinPartSize
IsPowerOfTwo(u) ==
    LET RECURSIVE Halves(_)
        Halves(v) == v = 1 \/ (v > 1 /\ v % 2 = 0 /\ Halves(v \div 2))
    IN Halves(u)
\* floor(size / (units * MinPartSize)) <= MaxParts
FitsMaxParts(sz, units) == ~PositiveWide(sz) \/ sz.whole \div units <= MaxParts
\* size <= MinPartSize * MaxParts
WithinMinParts(sz) ==
    sz.whole < MaxParts \/ (sz.whole = MaxParts /\ sz.rest = 0)
C39_SmallestPowerOfTwo ==
    ret.op = "calculatePartSize" =>
        /\ ret.n >= 1
        /\ IsPowerOfTwo(ret.n)
        /\ FitsMaxParts(size, ret.n)
        /\ (ret.n > 1 => ~FitsMaxParts(size, ret.n \div 2))
        /\ (WithinMinParts(size) => ret.n = 1)
\* a size that needs the part size doubled more than once
C39_Witness ==
    /\ ret.op = "calculatePartSize" /\ ret.n >= 4
\* a size below 0
C39_WitnessNegative ==
    /\ ret.op = "calculatePartSize" /\ size.whole < 0 /\ ret.n = 1

\* C37: for n > 0, Prefix.ReadDir(n) never returns an empty slice with a nil
\* error, also when a page holds no listable entry and more pages remain
C37_NoEmptySuccess ==
    (dret.op = "ReadDir" /\ dret.arg > 0 /\ dret.err = "nil")
        => dret.entries # <<>>

\* ReadDir(n) was called on the Prefix held with one n > 0 until it reported
\* the end of the directory
ReadToEnd ==
    /\ dret.op = "ReadDir" /\ dret.arg > 0 /\ dret.err = "EOF"
    /\ pages = NoPages \/ (pages.same /\ pages.n = dret.arg)
\* the calls returned every entry of the directory once
EachEntryOnce ==
    /\ {pages.d[i] : i \in 1 .. Len(pages.d)} = Directory(Path)
    /\ Len(pages.d) = Cardinality(Directory(Path))
\* the pages, one after the other, are in ascending order of name
PagesAscending ==
    \A i \in 1 .. Len(pages.d) - 1 : ~StrLess(pages.d[i + 1].name, pages.d[i].name)
\* C36: calling Prefix.ReadDir(n) with a fixed n > 0 until it reports the end
\* of the directory returns every listable entry exactly once, and the pages
\* one after the other are in ascending order of entry name
C36_PagesInOrder == ReadToEnd => EachEntryOnce /\ PagesAscending

\* readDirAt returned a page
PageReturned == dret.op = "readDirAt" /\ dret.err \in {"nil", "EOF"}
PagePattern == dret.arg[4]
\* C40: a page returned by readDirAt has no entry named "", "." or "..", no
\* object whose key ends in a slash, only entries whose last path segment
\* matches the pattern (every entry when the pattern is empty), and is in
\* ascending order of name, objects and common prefixes in one list
C40_PageFiltered ==
    PageReturned =>
        /\ \A i \in 1 .. Len(dret.entries) :
               /\ dret.entries[i].name \notin {<<>>, <<".">>, <<".", ".">>}
               /\ dret.entries[i].name = Base(dret.entries[i].key)
               /\ ~dret.entries[i].dir =>
                      dret.entries[i].key[Len(dret.entries[i].key)] # "/"
               /\ PagePattern = <<>> \/ Match(PagePattern, Base(dret.entries[i].key))
        /\ \A i \in 1 .. Len(dret.entries) - 1 :
               ~StrLess(dret.entries[i + 1].name, dret.entries[i].name)
\* a page of a bucket that holds keys to ignore, an object after a common
\* prefix in name order, under a pattern
C40_Witness ==
    /\ PageReturned /\ PagePattern = <<"b", "*">> /\ Path = Dot
    /\ objects = {<<"b", "-">>, <<"b", "/", "a">>}
    /\ Len(dret.entries) = 2 /\ dret.entries[1].dir /\ ~dret.entries[2].dir
\* a page whose keys "." and ".." are left out
C40_WitnessDots ==
    /\ PageReturned /\ Path = <<"b", "/">> /\ dret.arg[1] = -1 /\ dret.arg[2] = 0
    /\ objects = {<<"b", "/">>, <<"b", "/", ".">>, <<"b", "/", ".", ".">>}
    /\ dret.entries = <<>>

\* C38: a File.Read at an offset equal to the object size with no open body
\* (after Seek(0, io.SeekEnd), or after reading to the end and reconnecting)
\* returns (0, io.EOF) and not a range or HTTP error; the object is the one
\* the File was opened on, the buffer is not empty and the request is answered
C38_ReadAtEndIsEOF ==
    (/\ fret.op = "Read" /\ fret.from = FileSize /\ fret.arg[1] > 0
     /\ fret.get.sent /\ fret.get.answered
     /\ VersionOf(stored) = 1)
        => fret.n = 0 /\ fret.err = "EOF"

\* C31: when WriteFrom returns an error after its Start succeeded, the
\* multipart upload it initiated has been aborted: no upload initiated by
\* WriteFrom is open on the server after WriteFrom returns
C31_FailedWriteFromAborts ==
    (Returned /\ ret.res # NoErr /\ started) => DOMAIN uploads = {}

\* the full part k of the source, as a worker uploads it
FullPart(k) ==
    Source((k - 1) * calculatePartSize(size), calculatePartSize(size))
\* worker w of UploadFrom has claimed a part and not yet recorded it
Holding(w) == loc[w].op = "Upload"
\* no part number is claimed by two workers, and a worker uploads the bytes
\* of the source that belong to the part it claimed
ClaimedOnce ==
    /\ \A w \in Active :
           Holding(w) =>
               /\ loc[w].num \in FullParts
               /\ loc[w].body = FullPart(loc[w].num)
               /\ loc[w].num * calculatePartSize(size) <= offset
               /\ pc[w] = "wput" => \A i \in 1 .. Len(accepted) : accepted[i] # loc[w].num
    /\ \A w, v \in Active :
           (w # v /\ Holding(w) /\ Holding(v)) => loc[w].num # loc[v].num
    /\ \A i, j \in 1 .. Len(accepted) : i # j => accepted[i] # accepted[j]
\* Close is called when every worker has returned nil and every full part is
\* recorded once, with the ETag of its bytes
ClosedAfterWorkers ==
    closeCalls >= 1 =>
        /\ gerr = NoErr
        /\ \A w \in Active \ {1} : pc[w] = "done"
        /\ \A k \in FullParts :
               /\ Cardinality({i \in 1 .. Len(parts) : parts[i].Num = k}) = 1
               /\ \E i \in 1 .. Len(parts) :
                      parts[i] = tagpart(k, generateETag(FullPart(k)),
                                         calculatePartSize(size))
\* Close is given the bytes after the full parts, and nothing when there are
\* none
ClosedWithTail ==
    /\ (loc[1].op = "Close" /\ pc[1] = "put") =>
           /\ tailsize(size) > 0
           /\ loc[1].num = nonfinal(size) + 1
           /\ loc[1].body = Source(nonfinal(size) * calculatePartSize(size),
                                   size - nonfinal(size) * calculatePartSize(size))
    /\ (closeCalls >= 1 /\ tailsize(size) = 0) =>
           \A i \in 1 .. Len(accepted) : accepted[i] \in FullParts
    /\ (closeCalls >= 1 /\ tailsize(size) > 0) =>
           \/ loc[1].op = "Close" /\ pc[1] = "put"
           \/ \E i \in 1 .. Len(accepted) : accepted[i] = nonfinal(size) + 1
           \/ ret.op \in {"Close", "WriteFrom"} /\ ret.res # NoErr
\* C32: in UploadFrom, under every interleaving of the workers, each part
\* number in 1 .. floor(size / partSize) is claimed by one worker only and
\* uploaded once with the source bytes of that part; Close is called only
\* after all workers returned without error, and is given exactly the
\* size - floor(size / partSize) * partSize bytes of the tail
C32_PartsClaimedOnce == ClaimedOnce /\ ClosedAfterWorkers /\ ClosedWithTail
\* two workers uploaded the two full parts and Close is uploading the tail
C32_Witness ==
    /\ size = 2 * MinPartSize + TailLen /\ nthreads = 2
    /\ loc[1].op = "Close" /\ pc[1] = "put"
    /\ accepted = <<2, 1>>

C34_ManifestNumbersOnce ==
    \A i, j \in 1 .. Len(manifest) : i < j => manifest[i].Num < manifest[j].Num

\* Close is about to send the PUT of its tail
TailPut == loc[1].op = "Close" /\ pc[1] = "put"
\* the number of the tail is above every part number accepted so far, those
\* of the copies still running included
TailAboveAccepted ==
    TailPut =>
        /\ loc[1].body.len > 0
        /\ \A i \in 1 .. Len(accepted) : accepted[i] < loc[1].num
        /\ \A i \in 1 .. Len(parts) : parts[i].Num < loc[1].num
        /\ \A c \in Slots : copies[c].pc # "none" => copies[c].num < loc[1].num
\* the first Close of an upload sends a manifest whose last part is the tail
\* it uploaded (the one part shorter than MinPartSize)
TailLastInManifest ==
    (SendsComplete /\ closeCalls = 1
        /\ \E i \in 1 .. Len(parts) : parts[i].size < MinPartSize) =>
        /\ manifest'[Len(manifest')].ETag \in {generateETag(f) : f \in Finals \ {Nil}}
        /\ \A i \in 1 .. Len(manifest') - 1 :
               manifest'[i].Num < manifest'[Len(manifest')].Num
\* C35: Close(tail) with a tail that is not empty uploads it under a part
\* number above every part number accepted so far by a successful Upload or
\* by CopyFrom, copies still running when Close is called included, so that
\* the tail is the last part of the manifest
C35_TailIsLastPart == [][TailAboveAccepted' /\ TailLastInManifest]_vars
\* Close is sending its tail as part 3 while the copy of part 2 is running
C35_Witness ==
    /\ TailPut /\ loc[1].num = 3
    /\ \E c \in Slots : copies[c].pc # "none" /\ copies[c].num = 2
\* the first Close of an upload has sent a manifest that ends with its tail
C35_WitnessManifest ==
    /\ closeCalls = 1 /\ ret.op = "Close" /\ Len(manifest) = 3
    /\ manifest[3].ETag = generateETag(Bytes("t", 0, 10))

====
